---- MODULE Spec2Model ----
(***************************************************************************)
(* Detection Validation Engine (src/src/processors/validator.py).          *)
(*                                                                         *)
(* ResultValidator is a stateless object apart from iou_threshold; its     *)
(* methods are modelled as operators computed the way the Python code      *)
(* computes them, and each specification below draws the arguments of one  *)
(* method from bounded sets and applies it.                                *)
(*                                                                         *)
(* Number representation.  The code works on Python floats that are        *)
(* rounded to two decimals before they are stored or compared (round(x,2)  *)
(* in calculate_iou and in the report's accuracy).  Such values are kept   *)
(* here as integers counting hundredths: IoU 0.5 is 50, accuracy 33.33 is  *)
(* 3333.  None is the empty tuple <<>> and a present optional value v is   *)
(* the one-element tuple <<v>>.                                            *)
(*                                                                         *)
(* The last sections model the callers of the engine: TestProcessor        *)
(* (validate_results, run), AIAPIClient.get_all_evidences and the process  *)
(* pool of lib/parallel.py.  Their services are in env, the locals of the  *)
(* running method in locals.                                               *)
(***************************************************************************)
EXTENDS Integers, Sequences, FiniteSets, TLC

VARIABLES
    iou_threshold,    \* ResultValidator.iou_threshold, in hundredths
    pc,               \* position of the caller
    box1, box2,       \* arguments of calculate_iou
    iou, iou_swapped, \* calculate_iou(box1, box2), calculate_iou(box2, box1)
    expected_data,    \* argument of validate_video
    actual_results,   \* argument of validate_video
    report,           \* ValidationReport returned by validate_video
    total_matched,    \* validate_video local at line 435
    total_frames,     \* validate_video local at line 436
    variant,          \* parameter of the second validate_video call
    variant_report,   \* report of the second validate_video call
    ground_truth,     \* arguments of the ExpectedResultBuilder method called
    built,            \* what that ExpectedResultBuilder method returned
    env,              \* what the services around the running method answer
    locals            \* local variables of the running method

vars == <<iou_threshold, pc, box1, box2, iou, iou_swapped, expected_data,
          actual_results, report, total_matched, total_frames, variant,
          variant_report, ground_truth, built, env, locals>>

None == <<>>
Some(v) == <<v>>

Max(a, b) == IF a >= b THEN a ELSE b
Min(a, b) == IF a <= b THEN a ELSE b

\* ------------------------------------------------------------------------
\* Bounds of the model
\* ------------------------------------------------------------------------
MaxCoord == 2         \* calculate_iou inputs: x, y in 0..MaxCoord
MaxSize == 2          \* calculate_iou inputs: width, height in -1..MaxSize
MaxExpected == 3      \* validate_video inputs: at most this many expected frames
MaxActual == 2        \* validate_video inputs: at most this many actual frames
MaxTotal == 12        \* aggregate step: total_frames in 0..MaxTotal, and
BigTotal == 10005     \* one large total_frames (3 frames * 3335 events)

\* ResultValidator.__init__ default, 0.5, in hundredths
DefaultIouThreshold == 50

\* ------------------------------------------------------------------------
\* round(n / d, 2) for integers n and d # 0, in hundredths (the quotient
\* n / d with the sign carried by the numerator, rounded to the nearest).
\* Python rounds the correctly rounded quotient to the nearest hundredth and
\* an exact tie to the even neighbour; a tie n/d = q.xx5 is exact in binary
\* when d is a power of two (1/8 -> 0.12, 3/8 -> 0.38), which covers every
\* tie the bounded inputs below can produce.
\* ------------------------------------------------------------------------
Round2_truncate(n, d) == (n * 100) \div d

Round2(n, d) ==
    LET num == IF d < 0 THEN -n ELSE n
        den == IF d < 0 THEN -d ELSE d
        q == (num * 100) \div den
        r == (num * 100) % den
    IN  IF 2 * r < den THEN q
        ELSE IF 2 * r > den THEN q + 1
        ELSE IF q % 2 = 0 THEN q ELSE q + 1

\* ------------------------------------------------------------------------
\* ResultValidator.calculate_iou
\* ------------------------------------------------------------------------
Box(x, y, w, h) == [x |-> x, y |-> y, width |-> w, height |-> h]

\* union_area = box1_area + box2_area - inter_area  (line 217)
UnionArea_box1_only(box1_area, box2_area, inter_area) == box1_area

UnionArea_no_overlap(box1_area, box2_area, inter_area) ==
    box1_area + box2_area

UnionArea(box1_area, box2_area, inter_area) ==
    box1_area + box2_area - inter_area

\* x_inter_max < x_inter_min or y_inter_max < y_inter_min  (line 209)
NoOverlap_x_only(x_inter_min, y_inter_min, x_inter_max, y_inter_max) ==
    x_inter_max < x_inter_min

NoOverlap(x_inter_min, y_inter_min, x_inter_max, y_inter_max) ==
    x_inter_max < x_inter_min \/ y_inter_max < y_inter_min

calculate_iou(b1, b2) ==
    LET x1_min == b1.x
        y1_min == b1.y
        x1_max == b1.x + b1.width
        y1_max == b1.y + b1.height
        x2_min == b2.x
        y2_min == b2.y
        x2_max == b2.x + b2.width
        y2_max == b2.y + b2.height
        x_inter_min == Max(x1_min, x2_min)
        y_inter_min == Max(y1_min, y2_min)
        x_inter_max == Min(x1_max, x2_max)
        y_inter_max == Min(y1_max, y2_max)
        inter_area == (x_inter_max - x_inter_min) * (y_inter_max - y_inter_min)
        box1_area == b1.width * b1.height
        box2_area == b2.width * b2.height
        union_area == UnionArea(box1_area, box2_area, inter_area)
    IN  IF NoOverlap(x_inter_min, y_inter_min, x_inter_max, y_inter_max)
        THEN 0
        ELSE IF union_area = 0 THEN 0
        ELSE Round2(inter_area, union_area)

\* ------------------------------------------------------------------------
\* Records of the data model
\* ------------------------------------------------------------------------
Area(rule, box) == [ruleCode |-> rule, boundingBox |-> box]

ExpectedFrame(frame_id, offset, group, areas) ==
    [frameId |-> frame_id, offset_frame |-> offset, expect_id |-> group,
     detectedAreas |-> areas]

ActualFrame(frame_id, areas) ==
    [frameId |-> frame_id, detectedAreas |-> areas]

Expectation(status, frames) ==
    [expected_status |-> status, expected_frames |-> frames]

MinOf(S) == CHOOSE m \in S : \A n \in S : m <= n
MaxOf(S) == CHOOSE m \in S : \A n \in S : m >= n

\* ------------------------------------------------------------------------
\* ExpectedResultBuilder
\* ------------------------------------------------------------------------
\* __init__ defaults (line 11): fps 24 and compression_ratio 2.5, the
\* ratio held in tenths; frame_rate = fps / compression_ratio (line 20).
fps == 24
compression_ratio_tenths == 25

\* A time string "MM:SS" is <<MM, SS>>; the empty string and None are <<>>.
TimeStr(mm, ss) == <<mm, ss>>
NoTime == <<>>

time_to_seconds(time_str) ==
    IF time_str = NoTime THEN 0
    ELSE time_str[1] * 60 + time_str[2]

\* int(n / d) for d > 0: Python's int() drops the fraction, toward zero.
IntOf(n, d) == IF n >= 0 THEN n \div d ELSE -((-n) \div d)

calculate_relative_frame_offset(event_time, event_start_time) ==
    LET event_seconds == time_to_seconds(event_time)
        start_seconds == time_to_seconds(event_start_time)
        elapsed == event_seconds - start_seconds
    IN  IntOf(elapsed * fps * 10, compression_ratio_tenths)

\* x1, y1, x2, y2 = area raises ValueError unless area has four items
\* (line 55).
UnpackRaises(area) == Len(area) # 4

area_to_bounding_box_normalised(area) ==
    Box(Min(area[1], area[3]), Min(area[2], area[4]),
        Max(area[1], area[3]) - Min(area[1], area[3]),
        Max(area[2], area[4]) - Min(area[2], area[4]))

area_to_bounding_box(area) ==
    Box(area[1], area[2], area[3] - area[1], area[4] - area[2])

DetectionEvent(event_start, event_end, area) ==
    [eventStart |-> event_start, eventEnd |-> event_end, area |-> area]

\* if not event_start or not event_end or not area: continue  (lines 93-94)
Skipped(detection) ==
    \/ detection.eventStart = NoTime
    \/ detection.eventEnd = NoTime
    \/ detection.area = <<>>

\* The reference of start_offset_frame and end_offset_frame is the event's
\* own start (lines 101-102).
OffsetFrameReference_overall(event_start, event_start_time) ==
    event_start_time

OffsetFrameReference(event_start, event_start_time) == event_start

\* The three frames of one detection event (lines 96-127).
EventFrames(index, detection, event_start_time, rule_code) ==
    LET event_start == detection.eventStart
        event_end == detection.eventEnd
        reference == OffsetFrameReference(event_start, event_start_time)
        start_offset ==
            calculate_relative_frame_offset(event_start, event_start_time)
        end_offset ==
            calculate_relative_frame_offset(event_end, event_start_time)
        start_offset_frame ==
            calculate_relative_frame_offset(event_start, reference)
        end_offset_frame ==
            calculate_relative_frame_offset(event_end, reference)
        middle_offset_frame == (start_offset_frame + end_offset_frame) \div 2
        middle_offset == (start_offset + end_offset) \div 2
        areas == <<Area(rule_code, area_to_bounding_box(detection.area))>>
    IN  << ExpectedFrame(start_offset, start_offset_frame, index, areas),
           ExpectedFrame(middle_offset, middle_offset_frame, index, areas),
           ExpectedFrame(end_offset, end_offset_frame, index, areas) >>

\* frames as appended by the loop over enumerate(expected_result), from
\* position i on (lines 88-127); index is i - 1.
RECURSIVE GeneratedFrames(_, _, _, _)
GeneratedFrames(expected_result, i, event_start_time, rule_code) ==
    IF i > Len(expected_result) THEN <<>>
    ELSE (IF Skipped(expected_result[i]) THEN <<>>
          ELSE EventFrames(i - 1, expected_result[i], event_start_time,
                           rule_code))
         \o GeneratedFrames(expected_result, i + 1, event_start_time,
                            rule_code)

\* key=lambda x: x['frameId']  (line 130)
SortKey_offset_frame(frame) == frame.offset_frame

SortKey(frame) == frame.frameId

\* list.sort is stable: a frame goes after every frame already placed whose
\* key is not larger.
InsertByKey(frame, sorted) ==
    LET k == Cardinality({ i \in 1..Len(sorted) :
                             SortKey(sorted[i]) <= SortKey(frame) })
    IN  SubSeq(sorted, 1, k) \o <<frame>> \o SubSeq(sorted, k + 1, Len(sorted))

RECURSIVE SortedPrefix(_, _)
SortedPrefix(frames, n) ==
    IF n = 0 THEN <<>>
    ELSE InsertByKey(frames[n], SortedPrefix(frames, n - 1))

SortFrames(frames) == SortedPrefix(frames, Len(frames))

\* The loop reaches area_to_bounding_box with an area that does not unpack.
BuildRaises(expected_result) ==
    \E i \in 1..Len(expected_result) :
        /\ ~Skipped(expected_result[i])
        /\ UnpackRaises(expected_result[i].area)

\* build_expected_frames; event_end_time is not read by the method.  The
\* outcome is either the raise of ValueError or the returned list.
build_expected_frames(expected_result, event_start_time, rule_code) ==
    IF expected_result = <<>> THEN [raised |-> FALSE, frames |-> <<>>]
    ELSE IF BuildRaises(expected_result)
         THEN [raised |-> TRUE, frames |-> <<>>]
         ELSE [raised |-> FALSE,
               frames |-> SortFrames(GeneratedFrames(expected_result, 1,
                                         event_start_time, rule_code))]

\* ------------------------------------------------------------------------
\* ResultValidator.find_first_detection_frame_with_iou
\* ------------------------------------------------------------------------
\* One (expected area, actual area) pair passes the anchor test: equal rule
\* code and IoU at or above the threshold (lines 256-260).
AreaPairMatches_above_threshold(exp_area, act_area) ==
    /\ exp_area.ruleCode = act_area.ruleCode
    /\ calculate_iou(exp_area.boundingBox, act_area.boundingBox) > iou_threshold

AreaPairMatches(exp_area, act_area) ==
    /\ exp_area.ruleCode = act_area.ruleCode
    /\ calculate_iou(exp_area.boundingBox, act_area.boundingBox) >= iou_threshold

\* The frame makes the scan return (lines 243-263).
FrameMatchesFirst(frame, expected_areas) ==
    /\ Len(frame.detectedAreas) > 0
    /\ \E i \in 1..Len(expected_areas), j \in 1..Len(frame.detectedAreas) :
          AreaPairMatches(expected_areas[i], frame.detectedAreas[j])

\* Positions in list order of the frames that pass the anchor test.
AnchorCandidates(frames, expected_first_frame) ==
    IF Len(expected_first_frame.detectedAreas) = 0 THEN {}
    ELSE { i \in 1..Len(frames) :
             FrameMatchesFirst(frames[i], expected_first_frame.detectedAreas) }

AnchorFound(frames, expected_first_frame) ==
    AnchorCandidates(frames, expected_first_frame) # {}

find_first_detection_frame_with_iou_lowest_id(frames, expected_first_frame) ==
    LET cand == AnchorCandidates(frames, expected_first_frame)
    IN  IF cand = {} THEN 0
        ELSE MinOf({ frames[i].frameId : i \in cand })

find_first_detection_frame_with_iou(frames, expected_first_frame) ==
    LET cand == AnchorCandidates(frames, expected_first_frame)
    IN  IF cand = {} THEN 0 ELSE frames[MinOf(cand)].frameId

\* ------------------------------------------------------------------------
\* ResultValidator.match_frame
\* ------------------------------------------------------------------------
\* The inner loop over actual areas (lines 291-305), from position i on,
\* carrying (best_iou, best_match); the update is on strict improvement.
\* if exp_rule != act_rule: continue  (lines 299-300)
SameRule_always(exp_area, act_area) == TRUE

SameRule(exp_area, act_area) == exp_area.ruleCode = act_area.ruleCode

\* if iou > best_iou  (line 303)
Improves_or_ties(v, best_iou) == v >= best_iou

Improves(v, best_iou) == v > best_iou

RECURSIVE BestMatchFrom(_, _, _, _)
BestMatchFrom(exp_area, actual_areas, i, best) ==
    IF i > Len(actual_areas) THEN best
    ELSE LET act_area == actual_areas[i]
             same_rule == SameRule(exp_area, act_area)
             v == IF same_rule
                  THEN calculate_iou(exp_area.boundingBox, act_area.boundingBox)
                  ELSE 0
         IN  IF same_rule /\ Improves(v, best.iou)
             THEN BestMatchFrom(exp_area, actual_areas, i + 1,
                                [iou |-> v, actual |-> Some(act_area)])
             ELSE BestMatchFrom(exp_area, actual_areas, i + 1, best)

\* One MatchDetail (lines 307-316).
MatchDetail(exp_area, actual_areas) ==
    LET best == BestMatchFrom(exp_area, actual_areas, 1,
                              [iou |-> 0, actual |-> None])
    IN  [expected |-> exp_area, actual |-> best.actual, iou |-> best.iou,
         matched |-> best.iou >= iou_threshold]

\* match_details as appended at lines 311-316: one per expected area.
MatchDetails_only_matched(expected_areas, actual_areas) ==
    SelectSeq([i \in 1..Len(expected_areas) |->
                  MatchDetail(expected_areas[i], actual_areas)],
              LAMBDA d : d.matched)

MatchDetails(expected_areas, actual_areas) ==
    [i \in 1..Len(expected_areas) |->
        MatchDetail(expected_areas[i], actual_areas)]

match_frame(expected_frame, actual_frame) ==
    LET expected_areas == expected_frame.detectedAreas
        actual_areas == actual_frame.detectedAreas
        match_details == MatchDetails(expected_areas, actual_areas)
        matched_count ==
            Cardinality({ i \in 1..Len(expected_areas) :
                MatchDetail(expected_areas[i], actual_areas).matched })
    IN  IF Len(expected_areas) = 0
        THEN [matched |-> Len(actual_areas) = 0, details |-> <<>>]
        ELSE [matched |-> matched_count = Len(expected_areas),
              details |-> match_details]

\* ------------------------------------------------------------------------
\* ResultValidator.validate_video
\*
\* The report's video_name, test_case_id and test_case_description are
\* copied from expected_data unread and are left out of the records.
\* ------------------------------------------------------------------------
\* str.lower() on the status strings the model draws (line 339).
Lower(s) ==
    CASE s = "Reject" -> "reject"
      [] s = "REJECT" -> "reject"
      [] s = "Approve" -> "approve"
      [] OTHER -> s

IsRejectStatus(expected_status) == Lower(expected_status) = "reject"

\* has_detection = len(actual_results) > 0  (line 340)
HasDetection_by_areas(results) ==
    \E i \in 1..Len(results) : Len(results[i].detectedAreas) > 0

HasDetection(results) == Len(results) > 0

NoteFalsePositive ==
    <<"Model detects violation when uploading a NO violation video">>
NoteNoDetection ==
    <<"Model detects NO violation when uploading a violation video">>
NoteWrongBox(m, t) ==
    <<"Model detects violation but wrong bounding box", m, t>>

\* Case 1 (lines 339-353)
RejectReport(exp, results) ==
    [expected_status |-> exp.expected_status,
     total_frames |-> 0,
     matched_frames |-> 0,
     accuracy |-> None,
     detect_result |-> IF HasDetection(results) THEN "FAILED" ELSE "PASSED",
     validation_note |-> IF HasDetection(results) THEN NoteFalsePositive
                         ELSE <<"">>,
     frame_results |-> <<>>]

\* not actual_results or len(actual_results) == 0  (line 358)
ActualIsEmpty_never(results) == FALSE

ActualIsEmpty(results) == Len(results) = 0

\* Case 2 with no actual result (lines 359-370)
ApproveEmptyReport_null_accuracy(exp) ==
    [expected_status |-> exp.expected_status,
     total_frames |-> Len(exp.expected_frames),
     matched_frames |-> 0,
     accuracy |-> None,
     detect_result |-> "FAILED",
     validation_note |-> NoteNoDetection,
     frame_results |-> <<>>]

ApproveEmptyReport(exp) ==
    [expected_status |-> exp.expected_status,
     total_frames |-> Len(exp.expected_frames),
     matched_frames |-> 0,
     accuracy |-> Some(0),
     detect_result |-> "FAILED",
     validation_note |-> NoteNoDetection,
     frame_results |-> <<>>]

\* grouped_frames (lines 373-378): the keys, and one key's frames in the
\* order of expected_frames.
ExpectIds(expected_frames) ==
    { expected_frames[i].expect_id : i \in 1..Len(expected_frames) }

GroupFrames(expected_frames, expect_id) ==
    SelectSeq(expected_frames, LAMBDA f : f.expect_id = expect_id)

\* first_expected_frame = group_frames[0]  (line 394)
FirstExpectedFrame_of_case(expected_frames, group_frames) ==
    expected_frames[1]

FirstExpectedFrame(expected_frames, group_frames) == group_frames[1]

\* actual_frames_map = {f['frameId']: f for f in actual_results} and its
\* .get with the empty default (lines 383, 412-415): a later frame of the
\* list replaces an earlier one of the same frameId.
ActualFrameAt_first_of_list(results, frame_id) ==
    LET at == { i \in 1..Len(results) : results[i].frameId = frame_id }
    IN  IF at = {} THEN results[1]
        ELSE results[MaxOf(at)]

ActualFrameAt(results, frame_id) ==
    LET at == { i \in 1..Len(results) : results[i].frameId = frame_id }
    IN  IF at = {} THEN ActualFrame(frame_id, <<>>)
        ELSE results[MaxOf(at)]

\* absolute_frame_id = first_detection_frame + offset_frame  (line 409)
AbsoluteFrameId_no_anchor(first_detection_frame, offset_frame) ==
    offset_frame

AbsoluteFrameId(first_detection_frame, offset_frame) ==
    first_detection_frame + offset_frame

\* One pass of the loop over a group's frames (lines 407-433).
FrameResult(exp_frame, first_detection_frame, results) ==
    LET offset_frame == exp_frame.offset_frame
        absolute_frame_id == AbsoluteFrameId(first_detection_frame, offset_frame)
        act_frame == ActualFrameAt(results, absolute_frame_id)
        expected_for_match == [frameId |-> absolute_frame_id,
                               detectedAreas |-> exp_frame.detectedAreas]
        m == match_frame(expected_for_match, act_frame)
    IN  [frameId |-> absolute_frame_id,
         expect_id |-> exp_frame.expect_id,
         offset_frame |-> offset_frame,
         matched |-> m.matched,
         details |-> m.details]

\* One pass of the loop over the groups (lines 389-433).
GroupFrameResults(expected_frames, results, expect_id) ==
    LET group_frames == GroupFrames(expected_frames, expect_id)
        first_expected_frame == FirstExpectedFrame(expected_frames, group_frames)
        first_detection_frame ==
            find_first_detection_frame_with_iou(results, first_expected_frame)
    IN  [i \in 1..Len(group_frames) |->
            FrameResult(group_frames[i], first_detection_frame, results)]

\* all_frame_results over sorted(grouped_frames.keys()) (lines 386-433).
RECURSIVE AllFrameResults(_, _, _)
AllFrameResults(expected_frames, results, ids) ==
    IF ids = {} THEN <<>>
    ELSE LET expect_id == MinOf(ids)
         IN  GroupFrameResults(expected_frames, results, expect_id)
             \o AllFrameResults(expected_frames, results, ids \ {expect_id})

\* total_matched: one increment per matched frame (lines 424-425).
CountMatched(frame_results) ==
    Cardinality({ i \in 1..Len(frame_results) : frame_results[i].matched })

\* "PASSED" if accuracy > 50.0, on the unrounded accuracy
\* total_matched / total_frames * 100, 0.0 when total_frames is 0
\* (lines 437-438).
DetectResult_at_least_half(matched, total) ==
    IF total > 0 /\ matched * 100 >= 50 * total THEN "PASSED" ELSE "FAILED"

DetectResult(matched, total) ==
    IF total > 0 /\ matched * 100 > 50 * total THEN "PASSED" ELSE "FAILED"

\* round(accuracy, 2), in hundredths (lines 437, 447).
ReportedAccuracy_truncated(matched, total) ==
    IF total > 0 THEN Round2_truncate(matched * 100, total) ELSE 0

ReportedAccuracy(matched, total) ==
    IF total > 0 THEN Round2(matched * 100, total) ELSE 0

\* Overall statistics and the returned report (lines 435-451).
AggregateReport(exp, matched, total, all_frame_results) ==
    [expected_status |-> exp.expected_status,
     total_frames |-> total,
     matched_frames |-> matched,
     accuracy |-> Some(ReportedAccuracy(matched, total)),
     detect_result |-> DetectResult(matched, total),
     validation_note |-> NoteWrongBox(matched, total),
     frame_results |-> all_frame_results]

\* total_matched / total_frames is evaluated only if total_frames > 0
\* (line 437); evaluated with total_frames = 0 it raises ZeroDivisionError
\* and validate_video returns no report.
ZeroDivisionError == [raised |-> "ZeroDivisionError"]

DivisionEvaluated_always(total) == TRUE

DivisionEvaluated(total) == total > 0

\* Case 2 with actual results: the full alignment path (lines 372-451).
FullAlignmentReport(exp, results) ==
    LET expected_frames == exp.expected_frames
        all_frame_results ==
            AllFrameResults(expected_frames, results, ExpectIds(expected_frames))
        total == Len(expected_frames)
    IN  IF DivisionEvaluated(total) /\ total = 0 THEN ZeroDivisionError
        ELSE AggregateReport(exp, CountMatched(all_frame_results),
                             total, all_frame_results)

validate_video(exp, results) ==
    IF IsRejectStatus(exp.expected_status) THEN RejectReport(exp, results)
    ELSE IF ActualIsEmpty(results) THEN ApproveEmptyReport(exp)
    ELSE FullAlignmentReport(exp, results)

\* ------------------------------------------------------------------------
\* Specification SpecIou: calculate_iou applied to every pair of boxes of a
\* small grid, degenerate and negative-size boxes included.
\* ------------------------------------------------------------------------
GridBoxes ==
    { Box(x, y, w, h) : x \in 0..MaxCoord, y \in 0..MaxCoord,
                        w \in -1..MaxSize, h \in -1..MaxSize }

\* Three boxes of side 10: the second overlaps the first in a 5 x 5 square,
\* the third is apart from the first on both axes.
BoxTen == Box(0, 0, 10, 10)
BoxTenOverlapping == Box(5, 5, 10, 10)
BoxTenApart == Box(20, 20, 10, 10)

IouBoxes == GridBoxes \cup {BoxTen, BoxTenOverlapping, BoxTenApart}

NoBox == Box(0, 0, 0, 0)

InitIou ==
    /\ iou_threshold = DefaultIouThreshold
    /\ ground_truth = None
    /\ built = None
    /\ env = None
    /\ locals = None
    /\ pc = "iou_start"
    /\ box1 \in IouBoxes
    /\ box2 \in IouBoxes
    /\ iou = None
    /\ iou_swapped = None
    /\ expected_data = None
    /\ actual_results = <<>>
    /\ report = None
    /\ total_matched = 0
    /\ total_frames = 0
    /\ variant = None
    /\ variant_report = None

CallCalculateIou ==
    /\ pc = "iou_start"
    /\ iou' = Some(calculate_iou(box1, box2))
    /\ pc' = "iou_called"
    /\ UNCHANGED <<env, locals, ground_truth, built, iou_threshold, box1, box2, iou_swapped, expected_data,
                   actual_results, report, total_matched, total_frames,
                   variant, variant_report>>

CallCalculateIouSwapped ==
    /\ pc = "iou_called"
    /\ iou_swapped' = Some(calculate_iou(box2, box1))
    /\ pc' = "iou_done"
    /\ UNCHANGED <<env, locals, ground_truth, built, iou_threshold, box1, box2, iou, expected_data,
                   actual_results, report, total_matched, total_frames,
                   variant, variant_report>>

NextIou == CallCalculateIou \/ CallCalculateIouSwapped

SpecIou == InitIou /\ [][NextIou]_vars

BoxArea(b) == b.width * b.height
NonNegativeSize(b) == b.width >= 0 /\ b.height >= 0

\* C9: IoU symmetry - calculate_iou(a, b) equals calculate_iou(b, a) for all
\* pairs of xywh boxes, zero-area and negative-size boxes included.
C9_IouSymmetric ==
    pc = "iou_done" => iou = iou_swapped

\* C9 witness: both orders were computed for two different, partly
\* overlapping boxes of different areas.
C9_Witness ==
    /\ pc = "iou_done"
    /\ box1 # box2
    /\ iou[1] > 0 /\ iou[1] < 100
    /\ BoxArea(box1) # BoxArea(box2)

\* C10: IoU bounds - for boxes of non-negative width and height the result
\* lies in [0.0, 1.0], and a box of positive area has IoU 1.0 with itself.
C10_IouBounds ==
    (pc # "iou_start" /\ NonNegativeSize(box1) /\ NonNegativeSize(box2)) =>
        /\ iou[1] >= 0
        /\ iou[1] <= 100
        /\ (box1 = box2 /\ BoxArea(box1) > 0) => iou[1] = 100

\* C10 witness: a positive-area box compared with itself.
C10_Witness ==
    /\ pc = "iou_called"
    /\ box1 = box2
    /\ BoxArea(box1) > 0
    /\ NonNegativeSize(box1)
    /\ iou = Some(100)

\* The intersection rectangle, the areas and the ranges of two boxes, as
\* coordinates on the plane.
InterWidth(a, b) == Min(a.x + a.width, b.x + b.width) - Max(a.x, b.x)
InterHeight(a, b) == Min(a.y + a.height, b.y + b.height) - Max(a.y, b.y)
InterArea(a, b) == InterWidth(a, b) * InterHeight(a, b)
UnionOf(a, b) == BoxArea(a) + BoxArea(b) - InterArea(a, b)
XRangesDisjoint(a, b) == Max(a.x, b.x) > Min(a.x + a.width, b.x + b.width)
YRangesDisjoint(a, b) == Max(a.y, b.y) > Min(a.y + a.height, b.y + b.height)

\* C11: calculate_iou returns 0.0 when the x ranges or the y ranges of the
\* two boxes are disjoint (the max of the minima exceeds the min of the
\* maxima) and when the union area is zero; {0,0,10,10} against
\* {20,20,10,10} gives 0.0.
C11_DisjointOrEmptyUnionIsZero ==
    pc # "iou_start" =>
        /\ (XRangesDisjoint(box1, box2) \/ YRangesDisjoint(box1, box2)
              \/ UnionOf(box1, box2) = 0) => iou = Some(0)
        /\ (box1 = BoxTen /\ box2 = BoxTenApart) => iou = Some(0)

\* C11 witness: two boxes of positive area whose x ranges overlap and whose
\* y ranges are disjoint were compared.
C11_Witness ==
    /\ pc = "iou_called"
    /\ NonNegativeSize(box1) /\ NonNegativeSize(box2)
    /\ BoxArea(box1) > 0 /\ BoxArea(box2) > 0
    /\ InterWidth(box1, box2) > 0
    /\ YRangesDisjoint(box1, box2)
    /\ iou = Some(0)

\* C12: for overlapping boxes with a non-zero union calculate_iou returns
\* intersection area / union area, union = area(a) + area(b) - intersection;
\* {0,0,10,10} against {5,5,10,10} equals 25/175.  The result is held in
\* hundredths, so "equals the ratio" reads iou * union = intersection * 100.
C12_Original ==
    (/\ pc # "iou_start"
     /\ InterWidth(box1, box2) >= 0 /\ InterHeight(box1, box2) >= 0
     /\ UnionOf(box1, box2) # 0) =>
        iou[1] * UnionOf(box1, box2) = InterArea(box1, box2) * 100

\* ------------------------------------------------------------------------
\* Inputs of validate_video
\* ------------------------------------------------------------------------
BoundedSeq(S, n) == UNION { [1..m -> S] : m \in 0..n }

BoxA == Box(0, 0, 2, 2)
BoxB == Box(1, 0, 2, 2)       \* IoU with BoxA: 2/6 -> 0.33
BoxHalfA == Box(0, 0, 2, 1)   \* IoU with BoxA: 2/4 -> 0.5; with BoxB: 1/5 -> 0.2

ExpA == Area("PAR02", BoxA)
ExpB == Area("PAR02", BoxB)
ActHalfA == Area("PAR02", BoxHalfA)
ActB == Area("PAR02", BoxB)
ActOtherRule == Area("PAR03", BoxA)

\* Expected frames of two detection events: event 0 expects ExpA, event 1
\* expects ExpB and starts one frame after the test case's start, so that
\* frameId = expect_id + offset_frame.
ExpectedFrameChoices ==
    { ExpectedFrame(0, 0, 0, <<ExpA>>),
      ExpectedFrame(1, 1, 0, <<ExpA, ExpB>>),
      ExpectedFrame(1, 0, 1, <<ExpB>>),
      ExpectedFrame(2, 1, 1, <<ExpB>>),
      ExpectedFrame(1, 0, 1, <<>>) }

\* Actual frames; two of them share frameId 1.
ActualFrameChoices ==
    { ActualFrame(0, <<ActOtherRule, ActB>>),
      ActualFrame(1, <<ActHalfA>>),
      ActualFrame(2, <<ActHalfA, ActB>>),
      ActualFrame(1, <<>>) }

Statuses == {"Approve", "Reject", "reject"}

ExpectedFrameLists == BoundedSeq(ExpectedFrameChoices, MaxExpected)
ActualResultLists == BoundedSeq(ActualFrameChoices, MaxActual)

\* ------------------------------------------------------------------------
\* Specification Spec: one validate_video call on a fresh validator.
\* ------------------------------------------------------------------------
Init ==
    /\ iou_threshold = DefaultIouThreshold
    /\ ground_truth = None
    /\ built = None
    /\ env = None
    /\ locals = None
    /\ pc = "start"
    /\ box1 = NoBox
    /\ box2 = NoBox
    /\ iou = None
    /\ iou_swapped = None
    /\ \E status \in Statuses, frames \in ExpectedFrameLists :
          expected_data = Expectation(status, frames)
    /\ actual_results \in ActualResultLists
    /\ report = None
    /\ total_matched = 0
    /\ total_frames = 0
    /\ variant = None
    /\ variant_report = None

Return(r) ==
    /\ report' = r
    /\ pc' = "done"
    /\ UNCHANGED <<env, locals, ground_truth, built, iou_threshold, box1, box2, iou, iou_swapped, expected_data,
                   actual_results, total_matched, total_frames, variant,
                   variant_report>>

\* validate_video returning at line 342
ValidateReject ==
    /\ pc = "start"
    /\ IsRejectStatus(expected_data.expected_status)
    /\ Return(validate_video(expected_data, actual_results))

\* validate_video returning at line 359
ValidateApproveEmpty ==
    /\ pc = "start"
    /\ ~IsRejectStatus(expected_data.expected_status)
    /\ Len(actual_results) = 0
    /\ Return(validate_video(expected_data, actual_results))

\* validate_video returning at line 440
ValidateFullAlignment ==
    /\ pc = "start"
    /\ ~IsRejectStatus(expected_data.expected_status)
    /\ Len(actual_results) > 0
    /\ Return(validate_video(expected_data, actual_results))

Next == ValidateReject \/ ValidateApproveEmpty \/ ValidateFullAlignment

Spec == Init /\ [][Next]_vars

OnRejectPath == IsRejectStatus(expected_data.expected_status)
OnFullPath == ~OnRejectPath /\ Len(actual_results) > 0

\* C1: with expected_status "Reject", the result is PASSED iff actual_results
\* is empty and FAILED for any non-empty actual_results whatever the frames
\* hold; accuracy is null, total_frames and matched_frames are 0 and
\* frame_results is empty.
C1_RejectShortCircuit ==
    (pc = "done" /\ expected_data.expected_status = "Reject") =>
        /\ report.detect_result = "PASSED" <=> actual_results = <<>>
        /\ actual_results # <<>> => report.detect_result = "FAILED"
        /\ report.accuracy = None
        /\ report.total_frames = 0
        /\ report.matched_frames = 0
        /\ report.frame_results = <<>>

\* C1 witness: a Reject case with expected frames whose actual frames all
\* have zero detected areas, reported FAILED.
C1_Witness ==
    /\ pc = "done"
    /\ expected_data.expected_status = "Reject"
    /\ Len(expected_data.expected_frames) > 0
    /\ Len(actual_results) > 0
    /\ \A i \in 1..Len(actual_results) : actual_results[i].detectedAreas = <<>>
    /\ report.detect_result = "FAILED"

\* C2: with expected_status "Approve" and no actual result, the report is
\* FAILED with accuracy 0.0, matched_frames 0 and no frame result, for every
\* list of expected frames.
C2_ApproveEmptyShortCircuit ==
    (pc = "done" /\ expected_data.expected_status = "Approve"
                 /\ actual_results = <<>>) =>
        /\ report.detect_result = "FAILED"
        /\ report.accuracy = Some(0)
        /\ report.matched_frames = 0
        /\ report.frame_results = <<>>

\* C2 witness: an Approve case without actual results whose expected frames
\* include one with no expected area (which an empty actual frame would match).
C2_Witness ==
    /\ pc = "done"
    /\ expected_data.expected_status = "Approve"
    /\ actual_results = <<>>
    /\ \E i \in 1..Len(expected_data.expected_frames) :
          expected_data.expected_frames[i].detectedAreas = <<>>
    /\ report.detect_result = "FAILED"

\* The frame results of one group, in report order.
ResultsOfGroup(frame_results, expect_id) ==
    SelectSeq(frame_results, LAMBDA r : r.expect_id = expect_id)

\* C6: on the full alignment path there is one FrameResult per expected
\* frame: total_frames = number of expected frames = length of frame_results,
\* matched_frames = number of FrameResults with matched true, and a
\* FrameResult of a frame with expected areas has one MatchDetail per
\* expected area.
C6_OneResultPerExpectedFrame ==
    (pc = "done" /\ OnFullPath) =>
        LET frames == expected_data.expected_frames
            results == report.frame_results
        IN  /\ report.total_frames = Len(frames)
            /\ Len(results) = Len(frames)
            /\ report.matched_frames =
                  Cardinality({ i \in 1..Len(results) : results[i].matched })
            /\ report.matched_frames >= 0
            /\ report.matched_frames <= report.total_frames
            /\ \A g \in ExpectIds(frames) :
                  LET gf == GroupFrames(frames, g)
                      gr == ResultsOfGroup(results, g)
                  IN  /\ Len(gr) = Len(gf)
                      /\ \A i \in 1..Len(gf) :
                            /\ gr[i].offset_frame = gf[i].offset_frame
                            /\ Len(gf[i].detectedAreas) > 0 =>
                                  /\ Len(gr[i].details) = Len(gf[i].detectedAreas)
                                  /\ \A j \in 1..Len(gr[i].details) :
                                        gr[i].details[j].expected =
                                            gf[i].detectedAreas[j]

\* C6 witness: a full-path report over two groups with a matched and an
\* unmatched frame, one of them a frame with two expected areas of which
\* only one matched.
C6_Witness ==
    /\ pc = "done"
    /\ OnFullPath
    /\ Cardinality(ExpectIds(expected_data.expected_frames)) = 2
    /\ report.matched_frames > 0
    /\ report.matched_frames < report.total_frames
    /\ \E i \in 1..Len(report.frame_results) :
          LET d == report.frame_results[i].details
          IN  Len(d) = 2 /\ d[1].matched /\ ~d[2].matched

\* C8: the report's accuracy is null iff validate_video took the Reject
\* short-circuit; on both Approve paths it is a number from 0 to 100.
C8_AccuracyNullOnlyOnReject ==
    pc = "done" =>
        /\ report.accuracy = None <=> OnRejectPath
        /\ ~OnRejectPath =>
              /\ Len(report.accuracy) = 1
              /\ report.accuracy[1] >= 0
              /\ report.accuracy[1] <= 10000

\* C8 witness: an Approve report with a numeric accuracy strictly between
\* 0 and 100.
C8_Witness ==
    /\ pc = "done"
    /\ expected_data.expected_status = "Approve"
    /\ report.accuracy # None
    /\ report.accuracy[1] > 0
    /\ report.accuracy[1] < 10000

\* ------------------------------------------------------------------------
\* Specification SpecScore: the aggregate step of validate_video (lines
\* 435-451) entered with its locals total_matched <= total_frames; the
\* inputs and the frame results that produced them are not represented.
\* ------------------------------------------------------------------------
ScoreTotals == (0..MaxTotal) \cup {BigTotal}

InitScore ==
    /\ iou_threshold = DefaultIouThreshold
    /\ ground_truth = None
    /\ built = None
    /\ env = None
    /\ locals = None
    /\ pc = "aggregate"
    /\ box1 = NoBox
    /\ box2 = NoBox
    /\ iou = None
    /\ iou_swapped = None
    /\ expected_data = None
    /\ actual_results = <<>>
    /\ report = None
    /\ total_frames \in ScoreTotals
    /\ total_matched \in 0..total_frames
    /\ variant = None
    /\ variant_report = None

Aggregate ==
    /\ pc = "aggregate"
    /\ report' = AggregateReport(Expectation("Approve", <<>>), total_matched,
                                 total_frames, <<>>)
    /\ pc' = "scored"
    /\ UNCHANGED <<env, locals, ground_truth, built, iou_threshold, box1, box2, iou, iou_swapped, expected_data,
                   actual_results, total_matched, total_frames, variant,
                   variant_report>>

NextScore == Aggregate

SpecScore == InitScore /\ [][NextScore]_vars

\* C3 as stated: PASSED iff the report's accuracy is above 50.0, i.e. iff
\* 2 * matched_frames > total_frames.
C3_Original ==
    pc = "scored" =>
        /\ report.detect_result = "PASSED" <=> report.accuracy[1] > 5000
        /\ report.detect_result = "PASSED" <=>
              2 * report.matched_frames > report.total_frames

\* C3 (amended): on the full alignment path detect_result is PASSED iff
\* 2 * matched_frames > total_frames (2 of 4 FAILED, 3 of 4 PASSED, no
\* frame FAILED); the reported accuracy is then at least 50.0, and above
\* 50.0 whenever total_frames <= 10000.
C3_MajorityRule ==
    pc = "scored" =>
        /\ report.detect_result \in {"PASSED", "FAILED"}
        /\ report.detect_result = "PASSED" <=>
              2 * report.matched_frames > report.total_frames
        /\ report.detect_result = "PASSED" => report.accuracy[1] >= 5000
        /\ report.detect_result = "FAILED" => report.accuracy[1] <= 5000
        /\ report.total_frames <= 10000 =>
              (report.detect_result = "PASSED" <=> report.accuracy[1] > 5000)

\* C3 witness: exactly half of four frames matched, reported FAILED at 50.0.
C3_Witness ==
    /\ pc = "scored"
    /\ report.total_frames = 4
    /\ report.matched_frames = 2
    /\ report.accuracy = Some(5000)
    /\ report.detect_result = "FAILED"

\* C7 as stated: accuracy equals matched_frames / total_frames * 100 when
\* total_frames > 0, and 0 when total_frames is 0.
C7_Original ==
    pc = "scored" =>
        IF report.total_frames > 0
        THEN report.accuracy[1] * report.total_frames =
                 report.matched_frames * 10000
        ELSE report.accuracy = Some(0)

\* C7 (amended): accuracy is matched_frames / total_frames * 100 rounded to
\* the nearest hundredth when total_frames > 0 (so it differs from the exact
\* quotient by at most 0.005), and 0 when total_frames is 0.
C7_AccuracyRounded ==
    pc = "scored" =>
        IF report.total_frames > 0
        THEN LET diff == report.accuracy[1] * report.total_frames
                         - report.matched_frames * 10000
             IN  /\ 2 * diff <= report.total_frames
                 /\ 2 * diff >= 0 - report.total_frames
        ELSE report.accuracy = Some(0)

\* C7 witness: 2 of 3 frames matched, reported as 66.67.
C7_Witness ==
    /\ pc = "scored"
    /\ report.total_frames = 3
    /\ report.matched_frames = 2
    /\ report.accuracy = Some(6667)

\* ------------------------------------------------------------------------
\* Specification SpecShift: validate_video on the full alignment path, then
\* a second call with every actual frameId replaced by frameId + k.
\* ------------------------------------------------------------------------
Shifts == {-1, 2}

ShiftFrames(results, k) ==
    [i \in 1..Len(results) |->
        ActualFrame(results[i].frameId + k, results[i].detectedAreas)]

InitFullPath ==
    /\ iou_threshold = DefaultIouThreshold
    /\ ground_truth = None
    /\ built = None
    /\ env = None
    /\ locals = None
    /\ pc = "start"
    /\ box1 = NoBox
    /\ box2 = NoBox
    /\ iou = None
    /\ iou_swapped = None
    /\ \E frames \in ExpectedFrameLists :
          expected_data = Expectation("Approve", frames)
    /\ actual_results \in ActualResultLists \ {<<>>}
    /\ report = None
    /\ total_matched = 0
    /\ total_frames = 0
    /\ variant = None
    /\ variant_report = None

ValidateShifted ==
    /\ pc = "done"
    /\ \E k \in Shifts :
          /\ variant' = Some(k)
          /\ variant_report' =
                validate_video(expected_data, ShiftFrames(actual_results, k))
    /\ pc' = "shifted"
    /\ UNCHANGED <<env, locals, ground_truth, built, iou_threshold, box1, box2, iou, iou_swapped, expected_data,
                   actual_results, report, total_matched, total_frames>>

NextShift == ValidateFullAlignment \/ ValidateShifted

SpecShift == InitFullPath /\ [][NextShift]_vars

\* Every group's anchor is found: some actual frame passes the anchor test
\* against the group's first expected frame.
AllAnchorsFound ==
    \A g \in ExpectIds(expected_data.expected_frames) :
        AnchorFound(actual_results,
                    GroupFrames(expected_data.expected_frames, g)[1])

\* C4: anchor translation invariance - with every actual frameId replaced by
\* frameId + k and every group's anchor found, each FrameResult's frameId is
\* the old one plus k, each matched flag is unchanged, and matched_frames,
\* accuracy and detect_result are unchanged.
C4_AnchorTranslationInvariance ==
    (pc = "shifted" /\ AllAnchorsFound) =>
        LET old == report.frame_results
            new == variant_report.frame_results
        IN  /\ Len(new) = Len(old)
            /\ \A i \in 1..Len(old) :
                  /\ new[i].frameId = old[i].frameId + variant[1]
                  /\ new[i].matched = old[i].matched
            /\ variant_report.matched_frames = report.matched_frames
            /\ variant_report.accuracy = report.accuracy
            /\ variant_report.detect_result = report.detect_result

\* C4 witness: a shifted run over two anchored groups with matched and
\* unmatched frames, one group anchored at frameId 0.
C4_Witness ==
    /\ pc = "shifted"
    /\ AllAnchorsFound
    /\ Cardinality(ExpectIds(expected_data.expected_frames)) = 2
    /\ report.matched_frames > 0
    /\ report.matched_frames < report.total_frames
    /\ \E i \in 1..Len(report.frame_results) :
          /\ report.frame_results[i].frameId = 0
          /\ report.frame_results[i].matched

\* ------------------------------------------------------------------------
\* Specification SpecGroup: validate_video on the full alignment path, then
\* one call per expect_id group with the expectation cut down to that group.
\* ------------------------------------------------------------------------
ValidateEachGroupAlone ==
    /\ pc = "done"
    /\ variant' = Some("groups")
    /\ variant_report' =
          [g \in ExpectIds(expected_data.expected_frames) |->
              validate_video(
                  Expectation(expected_data.expected_status,
                              GroupFrames(expected_data.expected_frames, g)),
                  actual_results)]
    /\ pc' = "grouped"
    /\ UNCHANGED <<env, locals, ground_truth, built, iou_threshold, box1, box2, iou, iou_swapped, expected_data,
                   actual_results, report, total_matched, total_frames>>

NextGroup == ValidateFullAlignment \/ ValidateEachGroupAlone

SpecGroup == InitFullPath /\ [][NextGroup]_vars

RECURSIVE SumOver(_, _)
SumOver(f, S) ==
    IF S = {} THEN 0
    ELSE LET x == CHOOSE y \in S : TRUE
         IN  f[x] + SumOver(f, S \ {x})

MatchedFlags(frame_results) ==
    [i \in 1..Len(frame_results) |-> frame_results[i].matched]

GroupFullyMatches(g) ==
    LET gr == ResultsOfGroup(report.frame_results, g)
    IN  Len(gr) > 0 /\ \A i \in 1..Len(gr) : gr[i].matched

GroupFullyFails(g) ==
    LET gr == ResultsOfGroup(report.frame_results, g)
    IN  Len(gr) > 0 /\ \A i \in 1..Len(gr) : ~gr[i].matched

\* Each group's matched flags are those of the group validated alone, and
\* matched_frames is the sum of the groups' own matched counts.
GroupsIndependent ==
    LET ids == ExpectIds(expected_data.expected_frames)
    IN  /\ \A g \in ids :
              MatchedFlags(ResultsOfGroup(report.frame_results, g)) =
                  MatchedFlags(variant_report[g].frame_results)
        /\ report.matched_frames =
              SumOver([g \in ids |-> variant_report[g].matched_frames], ids)

\* C5 as stated: groups are independent, and when group 0 fully matches and
\* group 1 fully fails, matched_frames is the size of group 0 and accuracy
\* equals that count / total_frames * 100.
C5_Original ==
    pc = "grouped" =>
        /\ GroupsIndependent
        /\ (GroupFullyMatches(0) /\ GroupFullyFails(1)) =>
              LET n0 == Len(GroupFrames(expected_data.expected_frames, 0))
              IN  /\ report.matched_frames = n0
                  /\ report.accuracy[1] * report.total_frames = n0 * 10000

\* C5 (amended): groups are independent, and when group 0 fully matches and
\* group 1 fully fails, matched_frames is the size of group 0 and accuracy
\* is that count / total_frames * 100 rounded to the nearest hundredth.
C5_GroupIndependence ==
    pc = "grouped" =>
        /\ GroupsIndependent
        /\ (GroupFullyMatches(0) /\ GroupFullyFails(1)) =>
              LET n0 == Len(GroupFrames(expected_data.expected_frames, 0))
                  diff == report.accuracy[1] * report.total_frames - n0 * 10000
              IN  /\ report.matched_frames = n0
                  /\ 2 * diff <= report.total_frames
                  /\ 2 * diff >= 0 - report.total_frames

\* C5 witness: group 0 (two frames) fully matches, group 1 fully fails, and
\* the expected frames of the two groups are interleaved.
C5_Witness ==
    /\ pc = "grouped"
    /\ GroupFullyMatches(0)
    /\ GroupFullyFails(1)
    /\ Len(GroupFrames(expected_data.expected_frames, 0)) = 2
    /\ expected_data.expected_frames[2].expect_id = 1
    /\ report.matched_frames = 2

\* ------------------------------------------------------------------------
\* Specification SpecOffset: calculate_relative_frame_offset applied to
\* every pair of time strings of a small set, the absent string included.
\* ------------------------------------------------------------------------
MaxMinute == 1
MaxSecond == 5

TimeStrings ==
    {NoTime} \cup { TimeStr(mm, ss) : mm \in 0..MaxMinute, ss \in 0..MaxSecond }

InitOffset ==
    /\ iou_threshold = DefaultIouThreshold
    /\ ground_truth \in [event_time : TimeStrings,
                         event_start_time : TimeStrings]
    /\ built = None
    /\ env = None
    /\ locals = None
    /\ pc = "offset_start"
    /\ box1 = NoBox
    /\ box2 = NoBox
    /\ iou = None
    /\ iou_swapped = None
    /\ expected_data = None
    /\ actual_results = <<>>
    /\ report = None
    /\ total_matched = 0
    /\ total_frames = 0
    /\ variant = None
    /\ variant_report = None

CallCalculateOffset ==
    /\ pc = "offset_start"
    /\ built' = Some(calculate_relative_frame_offset(
                         ground_truth.event_time,
                         ground_truth.event_start_time))
    /\ pc' = "offset_done"
    /\ UNCHANGED <<env, locals, ground_truth, iou_threshold, box1, box2, iou, iou_swapped,
                   expected_data, actual_results, report, total_matched,
                   total_frames, variant, variant_report>>

NextOffset == CallCalculateOffset

SpecOffset == InitOffset /\ [][NextOffset]_vars

\* Seconds of a time mark, an absent one counting as 0.
SecondsOf(t) == IF t = NoTime THEN 0 ELSE 60 * t[1] + t[2]

\* C14: calculate_relative_frame_offset returns
\* floor((seconds(t_event) - seconds(t_reference)) * frame_rate) with
\* frame_rate = 24 / 2.5 = 9.6, negative elapsed times included; an absent
\* string counts as 0 seconds.  9.6 is 48/5, and \div is the floor.
C14_Original ==
    pc = "offset_done" =>
        built = Some(((SecondsOf(ground_truth.event_time)
                         - SecondsOf(ground_truth.event_start_time)) * 48)
                     \div 5)

\* ------------------------------------------------------------------------
\* Specification SpecBuild: one build_expected_frames call on a list of at
\* most MaxEvents detection events.
\* ------------------------------------------------------------------------
MaxEvents == 3

AreaA == <<0, 0, 2, 2>>            \* converts to BoxA
AreaB == <<1, 0, 3, 2>>            \* converts to BoxB
AreaReversed == <<2, 2, 0, 0>>     \* x2 < x1 and y2 < y1

\* Events 0:00-0:02 and 0:01-0:03 share the frameIds of 0:01 and 0:02; one
\* event ends before it starts, one has no length; then an event without
\* eventStart, one with the empty area, and two whose area has three and
\* five items.
EventChoices ==
    { DetectionEvent(TimeStr(0, 0), TimeStr(0, 2), AreaA),
      DetectionEvent(TimeStr(0, 1), TimeStr(0, 3), AreaB),
      DetectionEvent(TimeStr(0, 3), TimeStr(0, 1), AreaA),
      DetectionEvent(TimeStr(0, 1), TimeStr(0, 1), AreaReversed),
      DetectionEvent(NoTime, TimeStr(0, 2), AreaA),
      DetectionEvent(TimeStr(0, 0), TimeStr(0, 2), <<>>),
      DetectionEvent(TimeStr(0, 0), TimeStr(0, 2), <<0, 0, 2>>),
      DetectionEvent(TimeStr(0, 0), TimeStr(0, 2), <<0, 0, 2, 2, 2>>) }

EventStartTimes == {NoTime, TimeStr(0, 0), TimeStr(0, 2)}

RuleCodes == {"PAR02"}

InitBuild ==
    /\ iou_threshold = DefaultIouThreshold
    /\ ground_truth \in [expected_result : BoundedSeq(EventChoices, MaxEvents),
                         event_start_time : EventStartTimes,
                         rule_code : RuleCodes]
    /\ built = None
    /\ env = None
    /\ locals = None
    /\ pc = "build_start"
    /\ box1 = NoBox
    /\ box2 = NoBox
    /\ iou = None
    /\ iou_swapped = None
    /\ expected_data = None
    /\ actual_results = <<>>
    /\ report = None
    /\ total_matched = 0
    /\ total_frames = 0
    /\ variant = None
    /\ variant_report = None

BuildOutcome ==
    build_expected_frames(ground_truth.expected_result,
                          ground_truth.event_start_time,
                          ground_truth.rule_code)

BuildReturns ==
    /\ pc = "build_start"
    /\ ~BuildOutcome.raised
    /\ built' = Some(BuildOutcome.frames)
    /\ pc' = "built"
    /\ UNCHANGED <<env, locals, ground_truth, iou_threshold, box1, box2, iou, iou_swapped,
                   expected_data, actual_results, report, total_matched,
                   total_frames, variant, variant_report>>

BuildRaisesValueError ==
    /\ pc = "build_start"
    /\ BuildOutcome.raised
    /\ pc' = "build_raised"
    /\ UNCHANGED <<env, locals, ground_truth, built, iou_threshold, box1, box2, iou,
                   iou_swapped, expected_data, actual_results, report,
                   total_matched, total_frames, variant, variant_report>>

NextBuild == BuildReturns \/ BuildRaisesValueError

SpecBuild == InitBuild /\ [][NextBuild]_vars

\* The frames of the returned list that carry one expect_id, in list order.
FramesOfEvent(frames, index) ==
    SelectSeq(frames, LAMBDA f : f.expect_id = index)

FrameIdsOf(frames) == { frames[i].frameId : i \in 1..Len(frames) }

\* Frames an event projects to, relative to event_start_time: 48/5 frames
\* per second, the fraction dropped.
ProjectedFrame(t, event_start_time) ==
    IntOf((SecondsOf(t) - SecondsOf(event_start_time)) * 48, 5)

\* C13: build_expected_frames emits exactly three ExpectedFrames per
\* detection event - at start, floor((start + end) / 2) and end - all with
\* expect_id equal to the event's index and the same single area; the total
\* frame count is 3 * the number of events.
C13_Original ==
    pc = "built" =>
        LET events == ground_truth.expected_result
            t0 == ground_truth.event_start_time
        IN  /\ Len(built[1]) = 3 * Len(events)
            /\ \A i \in 1..Len(events) :
                  LET fs == FramesOfEvent(built[1], i - 1)
                      s == ProjectedFrame(events[i].eventStart, t0)
                      e == ProjectedFrame(events[i].eventEnd, t0)
                  IN  /\ Len(fs) = 3
                      /\ FrameIdsOf(fs) = {s, (s + e) \div 2, e}
                      /\ \A k \in 1..Len(fs) :
                            /\ Len(fs[k].detectedAreas) = 1
                            /\ fs[k].detectedAreas = fs[1].detectedAreas

\* C16: the list returned by build_expected_frames is sorted ascending by
\* frameId (not by offset_frame or expect_id); frames of equal frameId keep
\* their generation order, so among them expect_id does not decrease.
C16_SortedByFrameId ==
    pc = "built" =>
        \A i, j \in 1..Len(built[1]) :
            i < j =>
                /\ built[1][i].frameId <= built[1][j].frameId
                /\ built[1][i].frameId = built[1][j].frameId =>
                      built[1][i].expect_id <= built[1][j].expect_id

\* C16 witness: a returned list in which two events share a frameId, and in
\* which neither offset_frame nor expect_id ascends.
C16_Witness ==
    /\ pc = "built"
    /\ \E i, j \in 1..Len(built[1]) :
          /\ i < j
          /\ built[1][i].frameId = built[1][j].frameId
          /\ built[1][i].expect_id < built[1][j].expect_id
    /\ \E i, j \in 1..Len(built[1]) :
          i < j /\ built[1][i].offset_frame > built[1][j].offset_frame
    /\ \E i, j \in 1..Len(built[1]) :
          i < j /\ built[1][i].expect_id > built[1][j].expect_id

\* C20: for every detection event whose area list has a length other than
\* 4, the empty list included, building the expectation raises a value
\* error rather than producing frames or dropping the event.
C20_Original ==
    (/\ pc \in {"built", "build_raised"}
     /\ \E i \in 1..Len(ground_truth.expected_result) :
           Len(ground_truth.expected_result[i].area) # 4) =>
        pc = "build_raised"

\* ------------------------------------------------------------------------
\* Specification SpecAnchoring: the same detection events are built against
\* two event_start_time values and each expectation is validated against
\* the same actual results.
\* ------------------------------------------------------------------------
MaxAnchoredEvents == 2

\* Complete events: offset_frames (0, 9, 19) twice, (0, -10, -19) for the
\* event that ends before it starts, (0, 0, 0) for the one without length.
AnchoredEventChoices ==
    { DetectionEvent(TimeStr(0, 0), TimeStr(0, 2), AreaA),
      DetectionEvent(TimeStr(0, 1), TimeStr(0, 3), AreaB),
      DetectionEvent(TimeStr(0, 3), TimeStr(0, 1), AreaA),
      DetectionEvent(TimeStr(0, 1), TimeStr(0, 1), AreaB) }

\* Actual frames 9, 10 and 19 frames apart, and one at frameId 0 whose area
\* is at the threshold against BoxA and below it against BoxB.
AnchoredActualChoices ==
    { ActualFrame(0, <<ActHalfA>>),
      ActualFrame(20, <<ExpA>>),
      ActualFrame(29, <<ExpA, ActB>>),
      ActualFrame(39, <<ActB>>),
      ActualFrame(10, <<ExpA>>) }

InitAnchoring ==
    /\ iou_threshold = DefaultIouThreshold
    /\ ground_truth \in
          [expected_result : BoundedSeq(AnchoredEventChoices, MaxAnchoredEvents),
           event_start_time : EventStartTimes,
           rule_code : RuleCodes]
    /\ built = None
    /\ env = None
    /\ locals = None
    /\ pc = "anchoring_start"
    /\ box1 = NoBox
    /\ box2 = NoBox
    /\ iou = None
    /\ iou_swapped = None
    /\ expected_data = None
    /\ actual_results \in BoundedSeq(AnchoredActualChoices, MaxActual)
    /\ report = None
    /\ total_matched = 0
    /\ total_frames = 0
    /\ variant = None
    /\ variant_report = None

\* expected_frames for the row's events against event_start_time t.
FramesAgainst(t) ==
    build_expected_frames(ground_truth.expected_result, t,
                          ground_truth.rule_code).frames

BuildAndValidate ==
    /\ pc = "anchoring_start"
    /\ built' = Some(FramesAgainst(ground_truth.event_start_time))
    /\ expected_data' =
          Expectation("Approve", FramesAgainst(ground_truth.event_start_time))
    /\ report' = validate_video(expected_data', actual_results)
    /\ pc' = "anchored"
    /\ UNCHANGED <<env, locals, ground_truth, iou_threshold, box1, box2, iou, iou_swapped,
                   actual_results, total_matched, total_frames, variant,
                   variant_report>>

BuildAndValidateOtherStart ==
    /\ pc = "anchored"
    /\ \E t \in EventStartTimes \ {ground_truth.event_start_time} :
          /\ variant' = Some(t)
          /\ variant_report' =
                [expected_frames |-> FramesAgainst(t),
                 report |-> validate_video(
                                Expectation("Approve", FramesAgainst(t)),
                                actual_results)]
    /\ pc' = "reanchored"
    /\ UNCHANGED <<env, locals, ground_truth, built, iou_threshold, box1, box2, iou,
                   iou_swapped, expected_data, actual_results, report,
                   total_matched, total_frames>>

NextAnchoring == BuildAndValidate \/ BuildAndValidateOtherStart

SpecAnchoring == InitAnchoring /\ [][NextAnchoring]_vars

\* offset_frame of the frames of one event, in list order.
OffsetFramesOfEvent(frames, index) ==
    LET fs == FramesOfEvent(frames, index)
    IN  [k \in 1..Len(fs) |-> fs[k].offset_frame]

FrameIdSeq(frames) == [k \in 1..Len(frames) |-> frames[k].frameId]

GroundTruthAreas ==
    { <<x1, y1, x2, y2>> : x1 \in 0..MaxCoord, y1 \in 0..MaxCoord,
                           x2 \in 0..MaxCoord, y2 \in 0..MaxCoord }

\* 0.01, the smallest positive threshold of two decimals, and the default
PositiveThresholds == {1, DefaultIouThreshold}

InitArea ==
    /\ iou_threshold \in PositiveThresholds
    /\ ground_truth \in [area : GroundTruthAreas, rule_code : RuleCodes]
    /\ built = None
    /\ env = None
    /\ locals = None
    /\ pc = "area_start"
    /\ box1 = NoBox
    /\ box2 \in GridBoxes
    /\ iou = None
    /\ iou_swapped = None
    /\ expected_data = None
    /\ actual_results = <<>>
    /\ report = None
    /\ total_matched = 0
    /\ total_frames = 0
    /\ variant = None
    /\ variant_report = None

ConvertAndMatch ==
    /\ pc = "area_start"
    /\ box1' = area_to_bounding_box(ground_truth.area)
    /\ iou' = Some(calculate_iou(box1', box2))
    /\ built' = Some(match_frame(
                        ExpectedFrame(0, 0, 0,
                                      <<Area(ground_truth.rule_code, box1')>>),
                        ActualFrame(0, <<Area(ground_truth.rule_code, box2)>>)))
    /\ pc' = "area_matched"
    /\ UNCHANGED <<env, locals, ground_truth, iou_threshold, box2, iou_swapped,
                   expected_data, actual_results, report, total_matched,
                   total_frames, variant, variant_report>>

NextArea == ConvertAndMatch

SpecArea == InitArea /\ [][NextArea]_vars

ReversedArea(area) == area[3] < area[1] \/ area[4] < area[2]

\* C17: an area [x1, y1, x2, y2] with x2 < x1 or y2 < y1 is converted
\* without clamping to a box of negative width or height, and every such
\* expected area is unmatched against every actual frame for any positive
\* threshold, since calculate_iou returns 0.0 for it.
C17_ReversedAreaNeverMatches ==
    (pc = "area_matched" /\ ReversedArea(ground_truth.area)) =>
        /\ box1.x = ground_truth.area[1]
        /\ box1.y = ground_truth.area[2]
        /\ box1.width = ground_truth.area[3] - ground_truth.area[1]
        /\ box1.height = ground_truth.area[4] - ground_truth.area[2]
        /\ box1.width < 0 \/ box1.height < 0
        /\ iou = Some(0)
        /\ ~built[1].matched
        /\ \A k \in 1..Len(built[1].details) : ~built[1].details[k].matched

\* C17 witness: an area reversed on both axes was matched, under the
\* smallest threshold, against the detected box that covers the same
\* rectangle of the plane.
C17_Witness ==
    /\ pc = "area_matched"
    /\ ground_truth.area[3] < ground_truth.area[1]
    /\ ground_truth.area[4] < ground_truth.area[2]
    /\ box2 = Box(ground_truth.area[3], ground_truth.area[4],
                  ground_truth.area[1] - ground_truth.area[3],
                  ground_truth.area[2] - ground_truth.area[4])
    /\ iou_threshold = 1
    /\ ~built[1].matched

\* ------------------------------------------------------------------------
\* Specification SpecCalls: two validate_video calls in a row on one
\* validator with the same argument objects; variant holds a copy of the
\* arguments and of iou_threshold taken before the first call.
\* ------------------------------------------------------------------------
\* What validate_video leaves in its arguments and in self.  The method
\* assigns to locals only; its appends go to lists and dicts it created
\* itself (grouped_frames and its lists at lines 373-378, actual_frames_map
\* at 383, all_frame_results at 386 and 427; match_details at 284 and 311),
\* expected_for_match is a new dict (lines 418-421) and no self attribute
\* is assigned.
ExpectedDataAfter_frame_ids_rewritten(exp, results) ==
    IF IsRejectStatus(exp.expected_status) \/ ActualIsEmpty(results) THEN exp
    ELSE LET frames == exp.expected_frames
             AbsoluteOf(f) ==
                 AbsoluteFrameId(
                     find_first_detection_frame_with_iou(
                         results,
                         FirstExpectedFrame(frames,
                                            GroupFrames(frames, f.expect_id))),
                     f.offset_frame)
         IN  [exp EXCEPT !.expected_frames =
                 [i \in 1..Len(frames) |->
                     [frames[i] EXCEPT !.frameId = AbsoluteOf(frames[i])]]]

ExpectedDataAfter(exp, results) == exp

ActualResultsAfter(exp, results) == results

IouThresholdAfter(exp, results) == iou_threshold

InitCalls ==
    /\ iou_threshold \in PositiveThresholds
    /\ ground_truth = None
    /\ built = None
    /\ env = None
    /\ locals = None
    /\ pc = "start"
    /\ box1 = NoBox
    /\ box2 = NoBox
    /\ iou = None
    /\ iou_swapped = None
    /\ \E status \in Statuses, frames \in ExpectedFrameLists :
          expected_data = Expectation(status, frames)
    /\ actual_results \in ActualResultLists
    /\ report = None
    /\ total_matched = 0
    /\ total_frames = 0
    /\ variant = Some([expected_data |-> expected_data,
                       actual_results |-> actual_results,
                       iou_threshold |-> iou_threshold])
    /\ variant_report = None

CallValidateVideo ==
    /\ pc = "start"
    /\ report' = validate_video(expected_data, actual_results)
    /\ expected_data' = ExpectedDataAfter(expected_data, actual_results)
    /\ actual_results' = ActualResultsAfter(expected_data, actual_results)
    /\ iou_threshold' = IouThresholdAfter(expected_data, actual_results)
    /\ pc' = "called"
    /\ UNCHANGED <<env, locals, ground_truth, built, box1, box2, iou, iou_swapped,
                   total_matched, total_frames, variant, variant_report>>

CallValidateVideoAgain ==
    /\ pc = "called"
    /\ variant_report' = validate_video(expected_data, actual_results)
    /\ expected_data' = ExpectedDataAfter(expected_data, actual_results)
    /\ actual_results' = ActualResultsAfter(expected_data, actual_results)
    /\ iou_threshold' = IouThresholdAfter(expected_data, actual_results)
    /\ pc' = "called_again"
    /\ UNCHANGED <<env, locals, ground_truth, built, box1, box2, iou, iou_swapped,
                   report, total_matched, total_frames, variant>>

NextCalls == CallValidateVideo \/ CallValidateVideoAgain

SpecCalls == InitCalls /\ [][NextCalls]_vars

C19_AlwaysReturnsReport ==
    pc = "done" =>
        /\ "detect_result" \in DOMAIN report
        /\ report.detect_result \in {"PASSED", "FAILED"}

\* C19 witness: the full alignment path was taken with empty
\* expected_frames, and FAILED was returned with total_frames 0.
C19_Witness ==
    /\ pc = "done"
    /\ ~IsRejectStatus(expected_data.expected_status)
    /\ Len(actual_results) > 0
    /\ expected_data.expected_frames = <<>>
    /\ report.total_frames = 0
    /\ report.detect_result = "FAILED"

\* ------------------------------------------------------------------------
\* Anchors and resolved frames of a validate_video call of specification
\* Spec.
\* ------------------------------------------------------------------------
\* Positions of the actual frames that hold an area of the rule code of
\* some area of the expected frame with IoU at or above the threshold.
PositionsMatching(results, expected_frame) ==
    { i \in 1..Len(results) :
        \E e \in 1..Len(expected_frame.detectedAreas),
           a \in 1..Len(results[i].detectedAreas) :
            /\ expected_frame.detectedAreas[e].ruleCode
                 = results[i].detectedAreas[a].ruleCode
            /\ calculate_iou(expected_frame.detectedAreas[e].boundingBox,
                             results[i].detectedAreas[a].boundingBox)
                 >= iou_threshold }

\* C21: anchor discovery - a group's anchor is the frameId of the earliest
\* frame in actual_results list order (not frameId order) that has a
\* detected area with the ruleCode of the area of the group's first
\* expected frame and IoU >= iou_threshold against that area's box; with no
\* such frame the anchor is 0.  The anchor is read off each FrameResult as
\* frameId - offset_frame.
C21_AnchorIsEarliestInListOrder ==
    (pc = "done" /\ OnFullPath) =>
        \A g \in ExpectIds(expected_data.expected_frames) :
            LET first == GroupFrames(expected_data.expected_frames, g)[1]
                at == PositionsMatching(actual_results, first)
                anchor == IF at = {} THEN 0
                          ELSE actual_results[MinOf(at)].frameId
                gr == ResultsOfGroup(report.frame_results, g)
            IN  \A j \in 1..Len(gr) :
                    gr[j].frameId - gr[j].offset_frame = anchor

\* C21 witness: two actual frames pass the test for a group and the earlier
\* one in the list has the larger frameId; it is the anchor.
C21_Witness ==
    /\ pc = "done"
    /\ OnFullPath
    /\ \E g \in ExpectIds(expected_data.expected_frames) :
          LET first == GroupFrames(expected_data.expected_frames, g)[1]
              at == PositionsMatching(actual_results, first)
              gr == ResultsOfGroup(report.frame_results, g)
          IN  /\ Cardinality(at) = 2
              /\ actual_results[MinOf(at)].frameId
                   > actual_results[MaxOf(at)].frameId
              /\ gr[1].frameId - gr[1].offset_frame
                   = actual_results[MinOf(at)].frameId

FrameIdsIn(results) == { results[i].frameId : i \in 1..Len(results) }

C25_Original ==
    (pc = "done" /\ OnFullPath) =>
        \A g \in ExpectIds(expected_data.expected_frames) :
            LET gf == GroupFrames(expected_data.expected_frames, g)
                gr == ResultsOfGroup(report.frame_results, g)
                at == PositionsMatching(actual_results, gf[1])
            IN  at # {} =>
                    \A j \in 1..Len(gf) :
                        gf[j].offset_frame = 0 =>
                            /\ gr[j].frameId = actual_results[MinOf(at)].frameId
                            /\ gr[j].matched

\* ------------------------------------------------------------------------
\* Specification SpecMatch: match_frame on one expected frame and one
\* actual frame, then on the same frames with the actual frame's
\* detectedAreas permuted.
\* ------------------------------------------------------------------------
MaxActualAreas == 3

BoxLowerHalfA == Box(0, 1, 2, 1)   \* IoU with BoxA: 2/4 -> 0.5, as BoxHalfA
BoxFar == Box(5, 5, 1, 1)          \* apart from BoxA and BoxB

ActLowerHalfA == Area("PAR02", BoxLowerHalfA)
ActFar == Area("PAR02", BoxFar)

MatchExpectedAreaLists == { <<>>, <<ExpA>>, <<ExpB>>, <<ExpA, ExpB>> }

MatchActualAreas == {ActHalfA, ActLowerHalfA, ActB, ActFar, ActOtherRule}

InitMatch ==
    /\ iou_threshold \in PositiveThresholds
    /\ ground_truth = None
    /\ built = None
    /\ env = None
    /\ locals = None
    /\ pc = "match_start"
    /\ box1 = NoBox
    /\ box2 = NoBox
    /\ iou = None
    /\ iou_swapped = None
    /\ \E areas \in MatchExpectedAreaLists :
          expected_data = ExpectedFrame(0, 0, 0, areas)
    /\ \E areas \in BoundedSeq(MatchActualAreas, MaxActualAreas) :
          actual_results = ActualFrame(0, areas)
    /\ report = None
    /\ total_matched = 0
    /\ total_frames = 0
    /\ variant = None
    /\ variant_report = None

CallMatchFrame ==
    /\ pc = "match_start"
    /\ report' = match_frame(expected_data, actual_results)
    /\ pc' = "frame_matched"
    /\ UNCHANGED <<env, locals, ground_truth, built, iou_threshold, box1, box2, iou,
                   iou_swapped, expected_data, actual_results, total_matched,
                   total_frames, variant, variant_report>>

AreaOrders(n) ==
    { f \in [1..n -> 1..n] : \A i, j \in 1..n : i # j => f[i] # f[j] }

CallMatchFramePermuted ==
    /\ pc = "frame_matched"
    /\ \E f \in AreaOrders(Len(actual_results.detectedAreas)) :
          LET permuted == [i \in 1..Len(actual_results.detectedAreas) |->
                              actual_results.detectedAreas[f[i]]]
          IN  /\ variant' = Some(permuted)
              /\ variant_report' =
                    match_frame(expected_data, ActualFrame(0, permuted))
    /\ pc' = "permuted_matched"
    /\ UNCHANGED <<env, locals, ground_truth, built, iou_threshold, box1, box2, iou,
                   iou_swapped, expected_data, actual_results, report,
                   total_matched, total_frames>>

NextMatch == CallMatchFrame \/ CallMatchFramePermuted

SpecMatch == InitMatch /\ [][NextMatch]_vars

\* Positions of the actual areas with the expected area's ruleCode, the
\* IoU of one of them, and the greatest IoU among them (0 when there is
\* none).
SameRulePositions(exp_area, actual_areas) ==
    { a \in 1..Len(actual_areas) :
        actual_areas[a].ruleCode = exp_area.ruleCode }

IouAt(exp_area, actual_areas, a) ==
    calculate_iou(exp_area.boundingBox, actual_areas[a].boundingBox)

GreatestIou(exp_area, actual_areas) ==
    LET same == SameRulePositions(exp_area, actual_areas)
    IN  IF same = {} THEN 0
        ELSE MaxOf({ IouAt(exp_area, actual_areas, a) : a \in same })

\* The first position among the same-rule areas that attains the greatest
\* IoU.
FirstGreatest(exp_area, actual_areas) ==
    MinOf({ a \in SameRulePositions(exp_area, actual_areas) :
              IouAt(exp_area, actual_areas, a)
                = GreatestIou(exp_area, actual_areas) })

\* Several same-rule areas attain the greatest IoU.
Tied(exp_area, actual_areas) ==
    Cardinality({ a \in SameRulePositions(exp_area, actual_areas) :
                    IouAt(exp_area, actual_areas, a)
                      = GreatestIou(exp_area, actual_areas) }) > 1

\* C23: per-frame match - an expected area is matched iff the greatest IoU
\* between its box and the boxes of the actual areas of equal ruleCode is
\* >= iou_threshold (an area of another ruleCode never contributes); a
\* frame is matched iff all its expected areas are matched, and a frame
\* with zero expected areas is matched iff the actual frame has zero
\* detected areas.
C23_PerFrameMatch ==
    pc # "match_start" =>
        LET exp == expected_data.detectedAreas
            act == actual_results.detectedAreas
        IN  IF Len(exp) = 0
            THEN /\ report.matched <=> Len(act) = 0
                 /\ report.details = <<>>
            ELSE /\ Len(report.details) = Len(exp)
                 /\ \A k \in 1..Len(exp) :
                       report.details[k].matched
                         <=> GreatestIou(exp[k], act) >= iou_threshold
                 /\ report.matched
                       <=> \A k \in 1..Len(exp) : report.details[k].matched

\* C23 witness: the only actual area that covers the expected box has
\* another ruleCode, a same-rule area overlaps it below the threshold, and
\* the area and the frame are unmatched.
C23_Witness ==
    /\ pc = "frame_matched"
    /\ iou_threshold = DefaultIouThreshold
    /\ expected_data.detectedAreas = <<ExpA>>
    /\ actual_results.detectedAreas = <<ActOtherRule, ActB>>
    /\ ~report.details[1].matched
    /\ ~report.matched

\* C24: tie-breaking - when several same-ruleCode actual areas attain the
\* same greatest IoU against an expected area, the MatchDetail's actual is
\* the one that appears first in detectedAreas and its iou is that greatest
\* value; permuting the actual areas can change the reported area but not
\* the area's or the frame's matched flag.
C24_Original ==
    pc = "permuted_matched" =>
        LET exp == expected_data.detectedAreas
            act == actual_results.detectedAreas
        IN  /\ \A k \in 1..Len(exp) :
                  /\ Tied(exp[k], act) =>
                        /\ report.details[k].actual
                             = Some(act[FirstGreatest(exp[k], act)])
                        /\ report.details[k].iou = GreatestIou(exp[k], act)
                  /\ variant_report.details[k].matched
                       = report.details[k].matched
            /\ variant_report.matched = report.matched

\* C24 as it holds: the first of the tied areas is reported when the
\* greatest IoU is above 0.0; when it is 0.0 no area ever exceeds the
\* initial best_iou and the MatchDetail's actual is None.
C24_TieBreaking ==
    pc = "permuted_matched" =>
        LET exp == expected_data.detectedAreas
            act == actual_results.detectedAreas
        IN  /\ \A k \in 1..Len(exp) :
                  /\ report.details[k].iou = GreatestIou(exp[k], act)
                  /\ GreatestIou(exp[k], act) > 0 =>
                        report.details[k].actual
                          = Some(act[FirstGreatest(exp[k], act)])
                  /\ GreatestIou(exp[k], act) = 0 =>
                        report.details[k].actual = None
                  /\ variant_report.details[k].matched
                       = report.details[k].matched
            /\ variant_report.matched = report.matched

\* C24 witness: two different areas tie at 0.5 against the expected area,
\* the first of them is reported, and the permuted frame reports the other
\* with the same flags.
C24_Witness ==
    /\ pc = "permuted_matched"
    /\ Len(expected_data.detectedAreas) = 1
    /\ Tied(expected_data.detectedAreas[1], actual_results.detectedAreas)
    /\ report.details[1].iou = 50
    /\ report.details[1].actual
         = Some(actual_results.detectedAreas[
                    FirstGreatest(expected_data.detectedAreas[1],
                                  actual_results.detectedAreas)])
    /\ variant_report.details[1].actual # report.details[1].actual
    /\ variant_report.details[1].matched
    /\ report.details[1].matched

\* ------------------------------------------------------------------------
\* Groups without an anchor, in specification SpecAnchoring.
\* ------------------------------------------------------------------------
\* C26: for an Expectation produced by the builder and a positive IoU
\* threshold, if no anchor is found for a group (the anchor falls back to
\* 0) every FrameResult of the group has matched = false, whatever actual
\* frames exist at the frameIds 0 + offset_frame; a group contributes
\* matched frames only if its anchor was found.
C26_NoAnchorNoMatch ==
    (pc = "anchored" /\ Len(actual_results) > 0) =>
        \A g \in ExpectIds(expected_data.expected_frames) :
            LET gf == GroupFrames(expected_data.expected_frames, g)
                gr == ResultsOfGroup(report.frame_results, g)
            IN  ~AnchorFound(actual_results, gf[1]) =>
                    /\ Len(gr) = Len(gf)
                    /\ \A j \in 1..Len(gr) :
                          /\ gr[j].frameId = gf[j].offset_frame
                          /\ ~gr[j].matched

\* C26 witness: a group without an anchor whose offset-0 frame resolves to
\* frameId 0, where an actual frame with an area of the group's rule code
\* exists, next to a group whose anchor is found and which has a matched
\* frame.
C26_Witness ==
    /\ pc = "anchored"
    /\ \E i \in 1..Len(actual_results) :
          /\ actual_results[i].frameId = 0
          /\ Len(actual_results[i].detectedAreas) > 0
    /\ \E g \in ExpectIds(expected_data.expected_frames) :
          LET gf == GroupFrames(expected_data.expected_frames, g)
              gr == ResultsOfGroup(report.frame_results, g)
          IN  /\ ~AnchorFound(actual_results, gf[1])
              /\ \E j \in 1..Len(gr) : gr[j].frameId = 0 /\ ~gr[j].matched
    /\ \E g \in ExpectIds(expected_data.expected_frames) :
          LET gf == GroupFrames(expected_data.expected_frames, g)
              gr == ResultsOfGroup(report.frame_results, g)
          IN  /\ AnchorFound(actual_results, gf[1])
              /\ \E j \in 1..Len(gr) : gr[j].matched

\* ------------------------------------------------------------------------
\* TestProcessor.validate_results (src/src/processors/processor.py, lines
\* 192-285) and the helper it calls, build_result_data
\* (src/src/utils/helpers.py, lines 205-253).
\*
\* A dict is kept as the sequence of its items in insertion order:
\* assigning to a key that is present replaces the value in place, a new
\* key is appended.
\* ------------------------------------------------------------------------
MaxRows == 2          \* sheet rows fetched for one rule
MaxEvidences == 2     \* evidences returned for one batch

Item(k, v) == [key |-> k, value |-> v]

HasKey(d, k) == \E i \in 1..Len(d) : d[i].key = k

\* d[k] = v
DictSet(d, k, v) ==
    IF HasKey(d, k)
    THEN [i \in 1..Len(d) |-> IF d[i].key = k THEN Item(k, v) ELSE d[i]]
    ELSE Append(d, Item(k, v))

\* d.get(k, default)
DictGet(d, k, default) ==
    IF HasKey(d, k)
    THEN (d[CHOOSE i \in 1..Len(d) : d[i].key = k]).value
    ELSE default

\* video_name.replace('.mp4', '')  (line 225), on the names of the model
VideoCodeOf(video_name) ==
    CASE video_name = "a.mp4" -> "a"
      [] video_name = "b.mp4" -> "b"
      [] OTHER -> video_name

\* A sheet row as get_expected_results sees it: its 'Video Name' and what
\* build_from_sheet_row builds from it.
SheetRow(video_name, expected) ==
    [video_name |-> video_name, expected |-> expected]

SheetVideoNames == {"a.mp4", "b.mp4", ""}

RowExpectations ==
    { Expectation("Approve", <<ExpectedFrame(0, 0, 0, <<ExpA>>)>>),
      Expectation("Reject", <<>>) }

SheetRowChoices ==
    { SheetRow(n, e) : n \in SheetVideoNames, e \in RowExpectations }

Evidence(video_code, frames) == [video_code |-> video_code, frames |-> frames]

EvidenceChoices ==
    { Evidence("a", <<ActualFrame(0, <<ExpA>>)>>),
      Evidence("a", <<>>),
      Evidence("b", <<ActualFrame(0, <<ActB>>)>>),
      Evidence("", <<ActualFrame(0, <<ExpA>>)>>) }

\* get_expected_results (lines 117-132): rows without a video name are
\* skipped, a later row of the same name replaces the earlier one.
RECURSIVE get_expected_results(_)
get_expected_results(sheet_rows) ==
    IF Len(sheet_rows) = 0 THEN <<>>
    ELSE LET before == get_expected_results(SubSeq(sheet_rows, 1, Len(sheet_rows) - 1))
             row == sheet_rows[Len(sheet_rows)]
         IN  IF row.video_name # ""
             THEN DictSet(before, row.video_name, row.expected)
             ELSE before

\* Step 3 of validate_results (lines 211-216)
RECURSIVE GroupEvidences(_)
GroupEvidences(evidences) ==
    IF Len(evidences) = 0 THEN <<>>
    ELSE LET before == GroupEvidences(SubSeq(evidences, 1, Len(evidences) - 1))
             evidence == evidences[Len(evidences)]
         IN  IF evidence.video_code # ""
             THEN DictSet(before, evidence.video_code, evidence.frames)
             ELSE before

\* The parameters of build_result_data in order (helpers.py, lines 206-216),
\* those that have a default, and the keywords of the call at lines 258-269
\* of processor.py.
build_result_data_parameters ==
    {"batch_code", "timestamp", "rule", "videos_metadata", "missing_count",
     "videos_config", "rule_config", "validation_results", "start_time",
     "end_time", "duration_seconds"}

build_result_data_defaults ==
    {"validation_results", "start_time", "end_time", "duration_seconds"}

KeywordsOfCall ==
    {"batch_code", "timestamp", "rule", "videos_metadata", "missing_count",
     "videos_config", "validation_results", "start_time", "end_time",
     "duration_seconds"}

TypeError == [raised |-> "TypeError"]

\* Python binds a call made with keywords only: a parameter without a
\* default that receives no keyword, or a keyword that names no parameter,
\* raises TypeError before the body of the function runs.
CallRaisesTypeError(parameters, defaults, keywords) ==
    \/ \E p \in parameters : p \notin defaults /\ p \notin keywords
    \/ \E k \in keywords : k \notin parameters

\* pass_rate (line 246), rounded at line 281, in hundredths
PassRate(passed_count, total_testcases) ==
    IF total_testcases > 0 THEN Round2(passed_count * 100, total_testcases)
    ELSE 0

\* The dict returned at lines 273-285 (the fields the callers read)
Summary(total_testcases, passed_count, failed_count) ==
    [status |-> "success",
     total_testcases |-> total_testcases,
     passed |-> passed_count,
     failed |-> failed_count,
     pass_rate |-> PassRate(passed_count, total_testcases)]

\* ------------------------------------------------------------------------
\* Specification SpecValidateResults: one validate_results call whose sheet
\* rows and evidences are fetched without error.
\* ------------------------------------------------------------------------
InitValidateResults ==
    /\ iou_threshold = DefaultIouThreshold
    /\ ground_truth = None
    /\ built = None
    /\ env \in { [sheet_rows |-> rows, evidences |-> evs] :
                    rows \in BoundedSeq(SheetRowChoices, MaxRows),
                    evs \in BoundedSeq(EvidenceChoices, MaxEvidences) }
    /\ locals = None
    /\ pc = "validate_results"
    /\ box1 = NoBox
    /\ box2 = NoBox
    /\ iou = None
    /\ iou_swapped = None
    /\ expected_data = None
    /\ actual_results = <<>>
    /\ report = None
    /\ total_matched = 0
    /\ total_frames = 0
    /\ variant = None
    /\ variant_report = None

\* Steps 1 to 3 and the initialisation of step 4 (lines 203-222)
FetchAndGroup ==
    /\ pc = "validate_results"
    /\ locals' = [expected_results |-> get_expected_results(env.sheet_rows),
                  evidences_by_video |-> GroupEvidences(env.evidences),
                  validation_results |-> <<>>,
                  validated |-> <<>>,
                  passed_count |-> 0,
                  failed_count |-> 0]
    /\ pc' = "validate_each"
    /\ UNCHANGED <<env, ground_truth, built, iou_threshold, box1, box2, iou,
                   iou_swapped, expected_data, actual_results, report,
                   total_matched, total_frames, variant, variant_report>>

\* One iteration of the loop of step 4 (lines 224-239): the next item of
\* expected_results is validated against the frames of its video_code.
ValidateNextVideo ==
    /\ pc = "validate_each"
    /\ Len(locals.validation_results) < Len(locals.expected_results)
    /\ LET item == locals.expected_results[Len(locals.validation_results) + 1]
           video_code == VideoCodeOf(item.key)
           frames == DictGet(locals.evidences_by_video, video_code, <<>>)
           validation == validate_video(item.value, frames)
           is_passed == validation.detect_result = "PASSED"
       IN  /\ expected_data' = item.value
           /\ actual_results' = frames
           /\ locals' = [locals EXCEPT
                  !.validation_results = Append(@, validation),
                  !.validated = Append(@, item.key),
                  !.passed_count = IF is_passed THEN @ + 1 ELSE @,
                  !.failed_count = IF is_passed THEN @ ELSE @ + 1]
    /\ UNCHANGED <<env, ground_truth, built, iou_threshold, box1, box2, iou,
                   iou_swapped, report, total_matched, total_frames, variant,
                   variant_report, pc>>

\* After the loop (lines 241-285): the call of build_result_data at line
\* 258 is bound to the function's parameters; when the binding fails the
\* TypeError leaves validate_results, otherwise the summary is returned.
BuildResultAndReturn ==
    /\ pc = "validate_each"
    /\ Len(locals.validation_results) = Len(locals.expected_results)
    /\ report' = IF CallRaisesTypeError(build_result_data_parameters,
                                        build_result_data_defaults,
                                        KeywordsOfCall)
                 THEN TypeError
                 ELSE Summary(Len(locals.validation_results),
                              locals.passed_count, locals.failed_count)
    /\ pc' = "validate_results_done"
    /\ UNCHANGED <<env, locals, ground_truth, built, iou_threshold, box1,
                   box2, iou, iou_swapped, expected_data, actual_results,
                   total_matched, total_frames, variant, variant_report>>

NextValidateResults ==
    FetchAndGroup \/ ValidateNextVideo \/ BuildResultAndReturn

SpecValidateResults == InitValidateResults /\ [][NextValidateResults]_vars

\* C27: once the sheet rows and the evidences are fetched, validate_results
\* validates every expected video exactly once (against an empty list when
\* its video_code has no evidence), completes without raising and returns
\* a summary with status "success" in which passed + failed equals
\* total_testcases and the number of expected test cases.
C27_Original ==
    pc = "validate_results_done" =>
        /\ report # TypeError
        /\ report.status = "success"
        /\ report.passed + report.failed = report.total_testcases
        /\ report.total_testcases = Len(locals.expected_results)
        /\ locals.validated =
              [i \in 1..Len(locals.expected_results) |->
                  locals.expected_results[i].key]

\* ------------------------------------------------------------------------
\* TestProcessor.run (src/src/processors/processor.py, lines 287-383): the
\* two phases over the enabled rules, the wait between them and the report
\* writing before the return.  The run starts after smb.connect() returned
\* true and get_enabled_rules() returned a non-empty list.
\* ------------------------------------------------------------------------
MaxRules == 3         \* enabled rules of one run

\* Entries of results and of failed_rules (lines 313-317, 344, 348-352)
ErrorEntry(rule, message) ==
    [rule |-> rule, status |-> "error", message |-> message]
SuccessEntry(rule) ==
    [rule |-> rule, status |-> "success", message |-> ""]

\* What validate_results(processed) does inside the try of lines 340-352:
\* it raises when a fetch fails and when the call at line 258 cannot be
\* bound, otherwise it calls result_writer.add_result and returns.
ValidateResultsRaises(fetched) ==
    \/ ~fetched
    \/ CallRaisesTypeError(build_result_data_parameters,
                           build_result_data_defaults, KeywordsOfCall)

ValidateResultsMessage(fetched) ==
    IF ~fetched THEN "fetch failed" ELSE "TypeError"

\* TestResultConverterCSV.load_json (convert_json_to_csv.py, line 25) takes
\* next(iter(details.values())): with no details it raises StopIteration.
ConvertRaises(details) == Len(details) = 0

InitRun ==
    /\ iou_threshold = DefaultIouThreshold
    /\ ground_truth = None
    /\ built = None
    /\ env \in { [rules |-> [i \in 1..n |-> i], debug |-> d] :
                    n \in 1..MaxRules, d \in BOOLEAN }
    /\ locals = [processed_rules |-> <<>>,
                 failed_rules |-> <<>>,
                 results |-> <<>>,
                 details |-> <<>>,
                 upload_calls |-> <<>>,
                 validate_calls |-> <<>>]
    /\ pc = "phase1"
    /\ box1 = NoBox
    /\ box2 = NoBox
    /\ iou = None
    /\ iou_swapped = None
    /\ expected_data = None
    /\ actual_results = <<>>
    /\ report = None
    /\ total_matched = 0
    /\ total_frames = 0
    /\ variant = None
    /\ variant_report = None

RunLeaves ==
    UNCHANGED <<env, ground_truth, built, iou_threshold, box1, box2, iou,
                iou_swapped, expected_data, actual_results, report,
                total_matched, total_frames, variant, variant_report>>

\* One iteration of the loop of phase 1 (lines 306-317)
UploadNextRule ==
    /\ pc = "phase1"
    /\ Len(locals.upload_calls) < Len(env.rules)
    /\ LET rule == env.rules[Len(locals.upload_calls) + 1]
       IN  \E raised \in BOOLEAN :
              locals' = [locals EXCEPT
                  !.upload_calls = Append(@, rule),
                  !.processed_rules = IF raised THEN @ ELSE Append(@, rule),
                  !.failed_rules =
                      IF raised THEN Append(@, ErrorEntry(rule, "upload failed"))
                      ELSE @]
    /\ pc' = pc
    /\ RunLeaves

\* The wait for the AI (lines 320-330): with processed rules and outside
\* debug mode api.analyze_videos is called outside any try; when it raises,
\* run ends with that exception.
WaitForAI ==
    /\ pc = "phase1"
    /\ Len(locals.upload_calls) = Len(env.rules)
    /\ IF Len(locals.processed_rules) > 0 /\ ~env.debug
       THEN \E raised \in BOOLEAN :
               pc' = IF raised THEN "run_raised" ELSE "phase2"
       ELSE pc' = "phase2"
    /\ locals' = locals
    /\ RunLeaves

\* One iteration of the loop of phase 2 (lines 338-352)
ValidateNextRule ==
    /\ pc = "phase2"
    /\ Len(locals.validate_calls) < Len(locals.processed_rules)
    /\ LET rule == locals.processed_rules[Len(locals.validate_calls) + 1]
       IN  \E fetched \in BOOLEAN :
              locals' = [locals EXCEPT
                  !.validate_calls = Append(@, rule),
                  !.details = IF ValidateResultsRaises(fetched) THEN @
                              ELSE Append(@, rule),
                  !.results =
                      IF ValidateResultsRaises(fetched)
                      THEN Append(@, ErrorEntry(rule, ValidateResultsMessage(fetched)))
                      ELSE Append(@, SuccessEntry(rule))]
    /\ pc' = pc
    /\ RunLeaves

\* After phase 2 (lines 355-383): the entries of phase 1 are appended, the
\* reports are written and results is returned; csv_report.convert() at
\* line 379 raises when result_writer holds no details.
ReportAndReturn ==
    /\ pc = "phase2"
    /\ Len(locals.validate_calls) = Len(locals.processed_rules)
    /\ locals' = [locals EXCEPT !.results = @ \o locals.failed_rules]
    /\ pc' = IF ConvertRaises(locals.details) THEN "run_raised"
             ELSE "run_returned"
    /\ RunLeaves

NextRun == UploadNextRule \/ WaitForAI \/ ValidateNextRule \/ ReportAndReturn

SpecRun == InitRun /\ [][NextRun]_vars

\* Number of positions of a sequence that hold x
Occurrences(seq, x) == Cardinality({ i \in 1..Len(seq) : seq[i] = x })

EntriesOf(rule) ==
    { i \in 1..Len(locals.results) : locals.results[i].rule = rule }

UploadRaisedFor(rule) ==
    \E i \in 1..Len(locals.failed_rules) : locals.failed_rules[i].rule = rule

\* C28: once SMB is connected and a rule is enabled, no rule is validated
\* before upload_and_trigger_analysis was attempted for all enabled rules,
\* and the run ends by returning one result entry per enabled rule: a rule
\* whose upload raised has one error entry and was never passed to
\* validate_results, every other rule was passed to it exactly once.
C28_Original ==
    /\ Len(locals.validate_calls) > 0 =>
          locals.upload_calls = env.rules
    /\ pc \in {"run_returned", "run_raised"} =>
          /\ pc = "run_returned"
          /\ \A i \in 1..Len(env.rules) :
                LET rule == env.rules[i]
                IN  /\ Occurrences(locals.upload_calls, rule) = 1
                    /\ Cardinality(EntriesOf(rule)) = 1
                    /\ IF UploadRaisedFor(rule)
                       THEN /\ Occurrences(locals.validate_calls, rule) = 0
                            /\ \A k \in EntriesOf(rule) :
                                  locals.results[k].status = "error"
                       ELSE Occurrences(locals.validate_calls, rule) = 1

\* ------------------------------------------------------------------------
\* AIAPIClient.get_all_evidences (src/src/connectors/ai_api.py, lines
\* 78-90).  Every get_evidences call (lines 64-76) succeeds and answers
\* with some "data" list and some "total"; the items of a page are named by
\* the page and their position in it.
\* ------------------------------------------------------------------------
MaxPage == 4          \* pages told apart; the code has no limit on page
MaxPageItems == 2     \* items of one page
MaxReported == 3      \* largest "total" a response reports

\* result.get("data", []) of a response to the request of this page
PageData(page, n) == [k \in 1..n |-> <<page, k>>]

\* page += 1 (line 88).  The value MaxPage stands for page MaxPage and
\* every later page: the loop goes on requesting, and the model no longer
\* tells those pages apart.
NextPageOf(page) == IF page < MaxPage THEN page + 1 ELSE MaxPage

InitPages ==
    /\ iou_threshold = DefaultIouThreshold
    /\ ground_truth = None
    /\ built = None
    /\ env = None
    /\ locals = [all_data |-> <<>>, page |-> 1, requested |-> <<>>,
                 total |-> 0, odd_requests |-> FALSE]
    /\ pc = "paging"
    /\ box1 = NoBox
    /\ box2 = NoBox
    /\ iou = None
    /\ iou_swapped = None
    /\ expected_data = None
    /\ actual_results = <<>>
    /\ report = None
    /\ total_matched = 0
    /\ total_frames = 0
    /\ variant = None
    /\ variant_report = None

\* One iteration of the while loop (lines 83-88) and, when it breaks, the
\* return of line 90.  requested keeps the pages asked for while they are
\* told apart, odd_requests the parity of the number of requests made.
RequestPage ==
    /\ pc = "paging"
    /\ \E n \in 0..MaxPageItems, total \in 0..MaxReported :
          LET all_data == locals.all_data \o PageData(locals.page, n)
              stop == Len(all_data) >= total
          IN  /\ locals' = [all_data |-> all_data,
                            page |-> IF stop THEN locals.page
                                     ELSE NextPageOf(locals.page),
                            requested |->
                                IF Len(locals.requested) < MaxPage
                                THEN Append(locals.requested, locals.page)
                                ELSE locals.requested,
                            total |-> total,
                            odd_requests |-> ~locals.odd_requests]
              /\ pc' = IF stop THEN "evidences_returned" ELSE "paging"
    /\ UNCHANGED <<env, ground_truth, built, iou_threshold, box1, box2, iou,
                   iou_swapped, expected_data, actual_results, report,
                   total_matched, total_frames, variant, variant_report>>

NextPages == RequestPage

SpecPages == InitPages /\ [][NextPages]_vars

\* The loop runs on: an iteration that can be taken is taken.
SpecPagesFair == SpecPages /\ WF_vars(RequestPage)

\* C29: get_all_evidences terminates for every sequence of successful page
\* responses, pages with fewer items than expected or with no items while
\* the reported total exceeds the accumulated count included: every call
\* eventually returns.  (A page with items brings the accumulated count
\* nearer to the reported total, which is at most MaxReported, so a call
\* that never returns receives pages without items for ever.)
C29_Original == <>(pc = "evidences_returned")

\* ------------------------------------------------------------------------
\* process_pool_task and worker (src/lib/parallel.py, lines 54-74) running
\* function_process (lines 10-51) on the tasks that
\* run_parallel_video_tests (src/main.py, lines 24-52) prepares: 4-tuples,
\* with a log path.  The pool's processes take the tasks in order; each
\* runs worker on its task, and the steps of different processes
\* interleave freely.
\* ------------------------------------------------------------------------
MaxTasks == 3         \* tasks submitted to one pool

PoolSizes == {1, 2}   \* num_workers of the model

\* What happens inside the try of function_process: the test completes,
\* send_video_to_ai returns nothing (line 22), or a statement raises.
TaskOutcomes == {"completes", "no_ai_result", "raises"}

Task(video, outcome) == [video |-> video, outcome |-> outcome]

TaskLists ==
    UNION { { [i \in 1..n |-> Task(i, f[i])] : f \in [1..n -> TaskOutcomes] } :
            n \in 0..MaxTasks }

\* An entry that the caller put in output before the pool started
InitialEntry == [status |-> "success", video |-> 0]

\* An exception that leaves function_process
Raised == [status |-> "raised", video |-> 0]

function_process_uncaught(task) ==
    CASE task.outcome = "completes" -> [status |-> "success", video |-> task.video]
      [] task.outcome = "no_ai_result" -> [status |-> "failed", video |-> task.video]
      [] OTHER -> Raised

\* function_process: lines 22-24 and the except of lines 45-51 return a
\* result with status "failed", lines 38-43 one with status "success".
function_process(task) ==
    CASE task.outcome = "completes" -> [status |-> "success", video |-> task.video]
      [] task.outcome = "no_ai_result" -> [status |-> "failed", video |-> task.video]
      [] OTHER -> [status |-> "failed", video |-> task.video]

NoTask == 0
NoWorker == 0

IdleWorker == [at |-> "idle", task |-> NoTask, result |-> None]

InitPool ==
    /\ iou_threshold = DefaultIouThreshold
    /\ ground_truth = None
    /\ built = None
    /\ env \in { [tasks |-> tasks, output |-> output, num_workers |-> n] :
                    tasks \in TaskLists,
                    output \in {<<>>, <<InitialEntry>>},
                    n \in PoolSizes }
    /\ locals = [output_list |-> env.output,
                 lock |-> NoWorker,
                 next_task |-> 1,
                 workers |-> [w \in 1..env.num_workers |-> IdleWorker]]
    /\ pc = "pool_running"
    /\ box1 = NoBox
    /\ box2 = NoBox
    /\ iou = None
    /\ iou_swapped = None
    /\ expected_data = None
    /\ actual_results = <<>>
    /\ report = None
    /\ total_matched = 0
    /\ total_frames = 0
    /\ variant = None
    /\ variant_report = None

PoolLeaves ==
    UNCHANGED <<env, ground_truth, built, iou_threshold, box1, box2, iou,
                iou_swapped, expected_data, actual_results, total_matched,
                total_frames, variant, variant_report>>

\* A process of the pool takes the next task of starmap (line 72)
TakeTask ==
    \E w \in 1..env.num_workers :
      /\ pc = "pool_running"
      /\ locals.workers[w].at = "idle"
      /\ locals.next_task <= Len(env.tasks)
      /\ locals' = [locals EXCEPT
            !.workers[w] = [at |-> "called", task |-> locals.next_task,
                            result |-> None],
            !.next_task = @ + 1]
      /\ UNCHANGED <<pc, report>>
      /\ PoolLeaves

\* result = fn(task, log_pth)  (line 55); an exception that leaves fn
\* leaves worker, and starmap raises it in process_pool_task.
RunFunction ==
    \E w \in 1..env.num_workers :
      /\ pc = "pool_running"
      /\ locals.workers[w].at = "called"
      /\ LET result == function_process(env.tasks[locals.workers[w].task])
         IN  IF result = Raised
             THEN /\ pc' = "pool_raised"
                  /\ locals' = locals
             ELSE /\ pc' = pc
                  /\ locals' = [locals EXCEPT
                        !.workers[w].at = "computed",
                        !.workers[w].result = Some(result)]
      /\ UNCHANGED report
      /\ PoolLeaves

\* with lock:  (line 56), entering
AcquireLock ==
    \E w \in 1..env.num_workers :
      /\ pc = "pool_running"
      /\ locals.workers[w].at = "computed"
      /\ locals.lock = NoWorker
      /\ locals' = [locals EXCEPT !.lock = w, !.workers[w].at = "locked"]
      /\ UNCHANGED <<pc, report>>
      /\ PoolLeaves

\* output.append(result)  (line 57)
AppendResult ==
    \E w \in 1..env.num_workers :
      /\ pc = "pool_running"
      /\ locals.workers[w].at = "locked"
      /\ locals' = [locals EXCEPT
            !.output_list = Append(@, locals.workers[w].result[1]),
            !.workers[w].at = "appended"]
      /\ UNCHANGED <<pc, report>>
      /\ PoolLeaves

\* Leaving the with block, then the log line and the print (lines 58-60)
ReleaseLock ==
    \E w \in 1..env.num_workers :
      /\ pc = "pool_running"
      /\ locals.workers[w].at = "appended"
      /\ locals' = [locals EXCEPT !.lock = NoWorker, !.workers[w] = IdleWorker]
      /\ UNCHANGED <<pc, report>>
      /\ PoolLeaves

\* starmap returns when every task has been run; list(output_list) is
\* returned (line 74).
ReturnOutput ==
    /\ pc = "pool_running"
    /\ locals.next_task > Len(env.tasks)
    /\ \A w \in 1..env.num_workers : locals.workers[w].at = "idle"
    /\ report' = Some(locals.output_list)
    /\ pc' = "pool_returned"
    /\ locals' = locals
    /\ PoolLeaves

NextPool ==
    \/ TakeTask
    \/ RunFunction
    \/ AcquireLock
    \/ AppendResult
    \/ ReleaseLock
    \/ ReturnOutput

SpecPool == InitPool /\ [][NextPool]_vars

\* Positions of output_list that hold a result of this task
ResultsOfTask(list, video) ==
    { i \in 1..Len(list) : list[i].video = video }

InCriticalSection(w) == locals.workers[w].at \in {"locked", "appended"}

====
